---- MODULE Spec2Model ----
(***************************************************************************)
(* Model of sso-cli: identifier resolution (auth.py, cli.py) and the      *)
(* token acquisition state machine of SSOAuthenticator.get_token with its *)
(* 401 credential recovery, over the keyring (secrets.py) and the         *)
(* in-memory / saved configuration.                                       *)
(*                                                                         *)
(* Strings that the code inspects (keys, emails, client ids, keyring      *)
(* entry names) are sequences of characters, so that startswith, split    *)
(* and the f-string concatenations are computed as the code computes      *)
(* them.  Secrets are opaque values of which only emptiness is tested.    *)
(***************************************************************************)
EXTENDS Integers, Sequences, FiniteSets, TLC

VARIABLES config, saved, keyring, pc, call, log, result, ncalls, rq, rout, proc, roles

vars == <<config, saved, keyring, pc, call, log, result, ncalls, rq, rout, proc, roles>>

\* ---------------------------------------------------------------- bounds
\* number of get_token calls made in one behaviour
MaxCalls == 1
\* number of users of the environment a user identifier is resolved in
MaxUsers == 3
\* length of a role list of a claims object
MaxRoles == 2
\* number of pieces the middle segment of a token is made of
MaxChunks == 2
\* number of runs of the setup wizard in one behaviour
MaxWizardRuns == 2
\* number of entries and secret edits made in one wizard session
MaxWizardSteps == 3
\* number of keyring operations on the two identities of one behaviour
MaxStoreOps == 2

\* -------------------------------------------------------- string helpers
\* Python's None for a string-valued result; tested only through truthiness
NoStr == << >>
\* a dictionary key that is not present (env["sso_url"] raises KeyError)
Absent == <<"<absent>">>
\* keyring.get_password answers None when no entry exists
NoSecret == "<None>"

\* bool(x) of a str-or-None value
Truthy(s) == s # NoStr /\ s # Absent
\* bool(x) of a secret-or-None value
SecretTruthy(s) == s # "" /\ s # NoSecret

\* str.startswith
StartsWith(s, p) == Len(p) <= Len(s) /\ SubSeq(s, 1, Len(p)) = p

\* "@" in s
HasAt(s) == \E i \in 1..Len(s) : s[i] = "@"

\* str.strip, for the blanks a prompt's answer can carry
RECURSIVE LStrip(_)
LStrip(s) == IF s # << >> /\ Head(s) = " " THEN LStrip(Tail(s)) ELSE s
RECURSIVE RStrip(_)
RStrip(s) == IF s # << >> /\ s[Len(s)] = " " THEN RStrip(SubSeq(s, 1, Len(s) - 1)) ELSE s
Strip(s) == RStrip(LStrip(s))

\* s.split("@")[0]
LocalPart(s) ==
    IF HasAt(s)
    THEN LET i == CHOOSE k \in 1..Len(s) :
                      s[k] = "@" /\ \A j \in 1..(k-1) : s[j] # "@"
         IN  SubSeq(s, 1, i - 1)
    ELSE s

\* ------------------------------------------------------------- secrets.py
\* SecretManager.get_secret_key: f"{environment}:{user_key}:{secret_type}"
get_secret_key(environment, user_key, secret_type) ==
    environment \o <<":">> \o user_key \o <<":">> \o <<secret_type>>

\* SecretManager.get_secret on a keyring ring
get_secret(ring, environment, user_key, secret_type) ==
    LET key == get_secret_key(environment, user_key, secret_type)
    IN  IF key \in DOMAIN ring THEN ring[key] ELSE NoSecret

\* SecretManager.set_secret: keyring.set_password overwrites the entry
set_secret(ring, environment, user_key, secret_type, secret) ==
    LET key == get_secret_key(environment, user_key, secret_type)
    IN  [k \in (DOMAIN ring) \cup {key} |-> IF k = key THEN secret ELSE ring[k]]

\* SecretManager.delete_secret: removing a missing entry is not an error
delete_secret(ring, environment, user_key, secret_type) ==
    LET key == get_secret_key(environment, user_key, secret_type)
    IN  [k \in (DOMAIN ring) \ {key} |-> ring[k]]

\* ------------------------------------------------- configuration lookups
\* SSOAuthenticator.get_environments
get_environments(cfg) == cfg.environments

\* the empty dict {}: every key absent
NoEnv == [sso_url |-> Absent, realm |-> Absent, client_id |-> Absent]

\* SSOAuthenticator.get_environment: None for an unknown key.  Every caller
\* tests the result with "not env" or "env or {}", under which None and {}
\* are the same, so None is the empty dict here.
get_environment(cfg, env_key) ==
    IF env_key \in DOMAIN cfg.environments THEN cfg.environments[env_key] ELSE NoEnv

\* SSOAuthenticator.get_available_users_for_environment: the dict of users of
\* the environment in insertion order, as a sequence of entries
get_available_users_for_environment(cfg, environment) ==
    IF environment \in DOMAIN cfg.users THEN cfg.users[environment] ELSE << >>

\* the positions of the entries with key k
UserIndex(users, k) == {i \in 1..Len(users) : users[i].key = k}
UserKeys(users) == {users[i].key : i \in 1..Len(users)}

\* config.get("email", "") / config.get("client_id", "")
EmailOf(u) == IF u.email = Absent THEN NoStr ELSE u.email
ClientIdOf(u) == IF u.client_id = Absent THEN NoStr ELSE u.client_id

\* the prefix test shared by find_user_by_key and find_users_by_prefix
PrefixMatches(u, prefix) ==
    \/ StartsWith(u.key, prefix)
    \/ (Truthy(EmailOf(u)) /\ StartsWith(LocalPart(EmailOf(u)), prefix))
    \/ (Truthy(ClientIdOf(u)) /\ StartsWith(ClientIdOf(u), prefix))

\* email or client_id or key
DisplayOf(u) ==
    IF Truthy(EmailOf(u)) THEN EmailOf(u)
    ELSE IF Truthy(ClientIdOf(u)) THEN ClientIdOf(u) ELSE u.key

\* the loop of find_users_by_prefix over users.items(): the (key, display)
\* pairs of the matching entries, in dictionary order
RECURSIVE PrefixHits(_, _)
PrefixHits(users, prefix) ==
    IF users = << >> THEN << >>
    ELSE (IF PrefixMatches(Head(users), prefix)
          THEN << <<Head(users).key, DisplayOf(Head(users))>> >>
          ELSE << >>) \o PrefixHits(Tail(users), prefix)

\* SSOAuthenticator.find_users_by_prefix: list of (key, display)
find_users_by_prefix(cfg, environment, prefix) ==
    PrefixHits(get_available_users_for_environment(cfg, environment), prefix)

\* the email local-part step left out
EmailLocalPartStep_Skipped(u, user_key) == FALSE

\* lines 111-114: the step of find_user_by_key that compares the email local-part
EmailLocalPartStep(u, user_key) ==
    Truthy(EmailOf(u)) /\ LocalPart(EmailOf(u)) = user_key

\* SSOAuthenticator.find_user_by_key: the key, or None (NoStr)
find_user_by_key(cfg, environment, user_key) ==
    LET users == get_available_users_for_environment(cfg, environment)
        byMail == {i \in 1..Len(users) : EmailLocalPartStep(users[i], user_key)}
        matches == find_users_by_prefix(cfg, environment, user_key)
    IN  IF user_key \in UserKeys(users) THEN user_key
        ELSE IF byMail # {}
             THEN users[CHOOSE i \in byMail : \A j \in byMail : i <= j].key
        ELSE IF Len(matches) = 1 THEN matches[1][1]
        ELSE NoStr

\* SSOAuthenticator.find_environments_by_prefix, as the set of matching keys
find_environments_by_prefix(cfg, prefix) ==
    {key \in DOMAIN get_environments(cfg) : StartsWith(key, prefix)}

\* the first match returned also when there are several
find_environment_by_prefix_FirstMatch(cfg, prefix) ==
    LET matches == find_environments_by_prefix(cfg, prefix)
    IN  IF matches # {}
        THEN CHOOSE key \in matches : \A other \in matches : Len(key) <= Len(other)
        ELSE NoStr

\* SSOAuthenticator.find_environment_by_prefix: the key, or None (NoStr)
find_environment_by_prefix(cfg, prefix) ==
    LET matches == find_environments_by_prefix(cfg, prefix)
    IN  IF Cardinality(matches) = 1 THEN CHOOSE key \in matches : TRUE ELSE NoStr

\* ----------------------------------------------------- the event record
\* What one get_token call did, in order: keyring reads and writes, prompts,
\* configuration saves, token requests and the responses to them.
NoData == [grant_type |-> "", username |-> NoStr, password |-> NoSecret,
           client_id |-> NoStr, client_secret |-> NoSecret]
Event(ev, key, secret, text, data) ==
    [ev |-> ev, key |-> key, secret |-> secret, text |-> text, data |-> data]
EvGet(key) == Event("get", key, NoSecret, NoStr, NoData)
EvSet(key, secret) == Event("set", key, secret, NoStr, NoData)
\* a masked prompt (getpass) and what was typed
EvGetpass(what, secret) == Event("prompt", <<what>>, secret, NoStr, NoData)
\* a Prompt.ask and what was typed
EvAsk(what, text) == Event("prompt", <<what>>, NoSecret, text, NoData)
EvSave == Event("save", NoStr, NoSecret, NoStr, NoData)
EvPost(data) == Event("post", NoStr, NoSecret, NoStr, data)
EvResp(status) == Event("resp", <<status>>, NoSecret, NoStr, NoData)

\* the threaded program state: configuration, saved file, keyring, events
St(cfg, sv, ring, lg) == [config |-> cfg, saved |-> sv, keyring |-> ring, log |-> lg]

\* F applied to the value of x, which is computed once
Bind(x, F(_)) == CHOOSE r \in {F(v) : v \in {x}} : TRUE

\* SSOConfigManager.save: the document written to the configuration file is
\* the configuration given
SSOConfigManager_save(cfg) == cfg

\* SSOAuthenticator.save_config
save_config(st) ==
    LET Save(s) == [s EXCEPT !.saved = SSOConfigManager_save(s.config),
                             !.log = Append(@, EvSave)]
    IN  Bind(st, Save)

\* a SecretManager.get_secret call of the authenticator, recorded
StGet(st, environment, user_key, secret_type) ==
    [st EXCEPT !.log = Append(@, EvGet(get_secret_key(environment, user_key, secret_type)))]

\* a SecretManager.set_secret call of the authenticator, recorded
StSet(st, environment, user_key, secret_type, secret) ==
    [st EXCEPT !.keyring = set_secret(@, environment, user_key, secret_type, secret),
               !.log = Append(@, EvSet(get_secret_key(environment, user_key, secret_type), secret))]

\* a getpass call, recorded with its answer
StGetpass(st, what, secret) == [st EXCEPT !.log = Append(@, EvGetpass(what, secret))]

\* a Prompt.ask call, recorded with its answer
StAsk(st, what, text) == [st EXCEPT !.log = Append(@, EvAsk(what, text))]

\* d[k] = v on a dictionary d
DictPut(d, k, v) == [x \in (DOMAIN d) \cup {k} |-> IF x = k THEN v ELSE d[x]]

\* ------------------------------------------------------ create_environment
\* str.rstrip('/')
RECURSIVE RStripSlash(_)
RStripSlash(s) ==
    IF s # << >> /\ s[Len(s)] = "/" THEN RStripSlash(SubSeq(s, 1, Len(s) - 1)) ELSE s

\* the scheme is dropped, trailing slashes are dropped, https:// is put in front
\* (a scheme is one element of the sequence)
NormalizeDomain(sso_domain) ==
    LET stripped == Strip(sso_domain)
        domain == IF stripped # << >> /\ Head(stripped) \in {"https://", "http://"}
                  THEN Tail(stripped) ELSE stripped
    IN  <<"https://">> \o RStripSlash(domain)

\* SSOAuthenticator.create_environment with a key given: three prompts, the
\* entry is put into the configuration and the configuration is saved
create_environment(st, env_key, sso_domain, realm, client_id) ==
    LET env_config == [sso_url |-> NormalizeDomain(sso_domain), realm |-> realm,
                       client_id |-> IF Truthy(Strip(client_id)) THEN Strip(client_id)
                                     ELSE Absent]
        asked == StAsk(StAsk(StAsk(st, "sso_domain", sso_domain), "realm", realm),
                       "env_client_id", client_id)
    IN  save_config([asked EXCEPT !.config.environments = DictPut(@, env_key, env_config)])

\* SSOAuthenticator.get_sso_url with a key given: an unknown (or empty)
\* environment entry is created; env['sso_url'] and env['realm'] raise
\* KeyError when the entry lacks them
get_sso_url(st, env_key, sso_domain, realm, client_id) ==
    LET Url(st1) ==
            LET env == get_environment(st1.config, env_key)
            IN  IF env.sso_url = Absent \/ env.realm = Absent
                THEN [st |-> st1, err |-> "KeyError", url |-> NoStr]
                ELSE [st |-> st1, err |-> "",
                      url |-> env.sso_url \o <<"/realms/">> \o env.realm]
    IN  Bind(IF get_environment(st.config, env_key) = NoEnv
             THEN create_environment(st, env_key, sso_domain, realm, client_id)
             ELSE st, Url)

\* ---------------------------------------------------- get_user_credentials
\* the dict entry written for a key that is not configured (lines 166-181)
NewUserEntry(actual_key) ==
    IF HasAt(actual_key)
    THEN [key |-> actual_key, auth_type |-> "password", email |-> actual_key, client_id |-> Absent]
    ELSE [key |-> actual_key, auth_type |-> "client_credentials", email |-> Absent,
          client_id |-> actual_key]

\* user_config.get("auth_type", "password")
AuthTypeOf(u) == IF u.auth_type = "<absent>" THEN "password" ELSE u.auth_type

\* the secret kind of an auth type, as get_user_credentials and get_token pick it
SecretTypeOf(auth_type) ==
    IF auth_type = "client_credentials" THEN "client_secret" ELSE "password"

\* the identifier taken as the key without resolving it
ActualKey_Unresolved(cfg, environment, user_key) == user_key

\* lines 161-163: actual_key = find_user_by_key(...) or user_key
ActualKey(cfg, environment, user_key) ==
    LET found == find_user_by_key(cfg, environment, user_key)
    IN  IF Truthy(found) THEN found ELSE user_key

\* the secret asked for is used for the request but not stored
PromptAndStore_NotStored(st, environment, actual_key, kind, pw_missing) ==
    StGetpass(st, "missing_secret", pw_missing)

\* the secret asked for is stored in the keyring and also written into the
\* user's entry of the configuration, which is saved
PromptAndStore_IntoConfig(st, environment, actual_key, kind, pw_missing) ==
    save_config(
        [StSet(StGetpass(st, "missing_secret", pw_missing), environment, actual_key, kind,
               pw_missing)
            EXCEPT !.config.users[environment] =
                [i \in 1..Len(@) |->
                    IF @[i].key = actual_key THEN [password |-> pw_missing] @@ @[i] ELSE @[i]]])

\* lines 193-194 / 203-204: a secret the keyring lacks is asked for and stored
PromptAndStore(st, environment, actual_key, kind, pw_missing) ==
    StSet(StGetpass(st, "missing_secret", pw_missing), environment, actual_key, kind, pw_missing)

\* lines 184-206: the entry is read, the secret fetched or asked for
ReadCredentials(st1, environment, actual_key, pw_missing) ==
    LET users == st1.config.users[environment]
        Read(user_config) ==
            LET auth_type == AuthTypeOf(user_config)
                ident == IF auth_type = "client_credentials" THEN user_config.client_id
                         ELSE user_config.email
                kind == SecretTypeOf(auth_type)
                Got(stored) ==
                    IF ~Truthy(ident)
                    THEN [st |-> st1, err |-> "ValueError", actual_key |-> actual_key,
                          cred1 |-> NoStr, cred2 |-> NoSecret, auth_type |-> auth_type]
                    ELSE [st |-> IF SecretTruthy(stored)
                                 THEN StGet(st1, environment, actual_key, kind)
                                 ELSE PromptAndStore(StGet(st1, environment, actual_key, kind),
                                                     environment, actual_key, kind, pw_missing),
                          err |-> "", actual_key |-> actual_key, cred1 |-> ident,
                          cred2 |-> IF SecretTruthy(stored) THEN stored ELSE pw_missing,
                          auth_type |-> auth_type]
            IN  Bind(get_secret(st1.keyring, environment, actual_key, kind), Got)
    IN  Bind(users[CHOOSE i \in UserIndex(users, actual_key) : TRUE], Read)

\* the save of line 182 done on every call, not only after a creation
CreateUserIfMissing_AlwaysSaves(st0, environment, actual_key, pw_new) ==
    IF actual_key \in UserKeys(st0.config.users[environment]) THEN save_config(st0)
    ELSE save_config(
             StSet(StGetpass([st0 EXCEPT !.config.users[environment] =
                                             Append(@, NewUserEntry(actual_key))],
                             "new_user_secret", pw_new),
                   environment, actual_key,
                   SecretTypeOf(NewUserEntry(actual_key).auth_type), pw_new))

\* lines 165-182: a key that is not configured gets an entry and a secret
CreateUserIfMissing(st0, environment, actual_key, pw_new) ==
    IF actual_key \in UserKeys(st0.config.users[environment]) THEN st0
    ELSE save_config(
             StSet(StGetpass([st0 EXCEPT !.config.users[environment] =
                                             Append(@, NewUserEntry(actual_key))],
                             "new_user_secret", pw_new),
                   environment, actual_key,
                   SecretTypeOf(NewUserEntry(actual_key).auth_type), pw_new))

\* SSOAuthenticator.get_user_credentials.  pw_new answers the prompt of the
\* creation branch, pw_missing the prompt for a secret the keyring lacks.
get_user_credentials(st, environment, user_key, pw_new, pw_missing) ==
    LET Resolve(st0) ==
            LET Create(actual_key) ==
                    LET Read(st1) == ReadCredentials(st1, environment, actual_key, pw_missing)
                    IN  Bind(CreateUserIfMissing(st0, environment, actual_key, pw_new), Read)
            IN  Bind(ActualKey(st0.config, environment, user_key), Create)
    IN  \* lines 156-159
        Bind(IF environment \in DOMAIN st.config.users THEN st
             ELSE [st EXCEPT !.config.users = DictPut(@, environment, << >>)], Resolve)

\* ---------------------------------------------------------------- get_token
\* what the token endpoint can answer to one POST: 2xx with an access_token,
\* 2xx without one, 401, another non-2xx status, or no answer at all
Statuses == {"200", "200_no_token", "401", "500", "neterr"}

\* a recovery entered on every error status, not only on 401
IsUnauthorized_AnyErrorStatus(status) == status \in {"401", "500"}

\* line 225: response.status_code == 401
IsUnauthorized(status) == status = "401"

\* the except clause of lines 266-267 left out: a 401 propagates as any
\* other status error
Outcome_NoAuthFailed(status) ==
    CASE status = "200" -> "token"
      [] status = "200_no_token" -> "KeyError"
      [] status \in {"401", "500"} -> "HTTPStatusError"
      [] OTHER -> "TransportError"

\* lines 261-271: how a call ends on a response that is not recovered from
\* (raise_for_status, json()["access_token"], the except clauses)
Outcome(status) ==
    CASE status = "200" -> "token"
      [] status = "200_no_token" -> "KeyError"
      [] status = "401" -> "AuthenticationFailed"
      [] status = "500" -> "HTTPStatusError"
      [] OTHER -> "TransportError"

\* lines 215-220: the body of the initial request
GrantData(auth_type, cred1, cred2, client_id) ==
    IF auth_type = "client_credentials"
    THEN [grant_type |-> "client_credentials", username |-> NoStr, password |-> NoSecret,
          client_id |-> cred1, client_secret |-> cred2]
    ELSE [grant_type |-> "password", username |-> cred1, password |-> cred2,
          client_id |-> IF Truthy(client_id) THEN client_id ELSE NoStr,
          client_secret |-> NoSecret]

\* the retry built from the old secret although a new one was typed
RetrySecret_KeepsOld(new_secret, cred2) == cred2

\* the retry built from what was typed, also when nothing was typed
RetrySecret_AlwaysTyped(new_secret, cred2) == new_secret

\* lines 242-247 / 253-258: the secret the retry carries
RetrySecret(new_secret, cred2) == IF new_secret # "" THEN new_secret ELSE cred2

\* lines 243 / 254: the user key under which the replacement secret is stored
RecoveryStoreKey(user_key, actual_key) == user_key

\* a retry that leaves the environment's client id out of a password grant
RetryData_NoClientId(auth_type, cred1, secret, client_id) ==
    IF auth_type = "password"
    THEN [grant_type |-> "password", username |-> cred1, password |-> secret,
          client_id |-> NoStr, client_secret |-> NoSecret]
    ELSE [grant_type |-> "client_credentials", username |-> NoStr, password |-> NoSecret,
          client_id |-> cred1, client_secret |-> secret]

\* lines 245-249 / 256-258: the body of the retry request
RetryData(auth_type, cred1, secret, client_id) ==
    IF auth_type = "password"
    THEN [grant_type |-> "password", username |-> cred1, password |-> secret,
          client_id |-> IF Truthy(client_id) THEN client_id ELSE NoStr,
          client_secret |-> NoSecret]
    ELSE [grant_type |-> "client_credentials", username |-> NoStr, password |-> NoSecret,
          client_id |-> cred1, client_secret |-> secret]

\* a captured client id that is used for the retry and not put into the
\* configuration
CaptureClientId_NotPersisted(st, c, new_client_id) ==
    IF c.auth_type = "password" /\ ~Truthy(c.client_id)
    THEN [st |-> StAsk(st, "client_id", new_client_id),
          client_id |-> IF Truthy(Strip(new_client_id)) THEN Strip(new_client_id)
                        ELSE c.client_id]
    ELSE [st |-> st, client_id |-> c.client_id]

\* lines 227-238: the offer to capture a client id; c is the call's locals
CaptureClientId(st, c, new_client_id) ==
    IF c.auth_type = "password" /\ ~Truthy(c.client_id)
    THEN IF Truthy(Strip(new_client_id))
         THEN [st |-> save_config(
                          [StAsk(st, "client_id", new_client_id)
                              EXCEPT !.config.environments =
                                  DictPut(@, c.environment,
                                          [get_environment(st.config, c.environment)
                                              EXCEPT !.client_id = Strip(new_client_id)])]),
               client_id |-> Strip(new_client_id)]
         ELSE [st |-> StAsk(st, "client_id", new_client_id), client_id |-> c.client_id]
    ELSE [st |-> st, client_id |-> c.client_id]

\* lines 240-258: the prompt for a replacement secret, its storing, and the
\* retry body
Recover(st, c, new_client_id, new_secret) ==
    LET kind == IF c.auth_type = "password" THEN "password" ELSE "client_secret"
        Retry(cap) ==
            [st |-> IF new_secret # ""
                    THEN StSet(StGetpass(cap.st, "replacement_secret", new_secret),
                               c.environment, RecoveryStoreKey(c.user_key, c.actual_key),
                               kind, new_secret)
                    ELSE StGetpass(cap.st, "replacement_secret", new_secret),
             data |-> RetryData(c.auth_type, c.cred1, RetrySecret(new_secret, c.cred2),
                                cap.client_id)]
    IN  Bind(CaptureClientId(st, c, new_client_id), Retry)

\* How resolve_environment / resolve_user end: a key is returned that
\* find_*_by_* found ("found"), the process exits with the list of matches
\* ("ambiguous"), or the argument itself is returned for the creation flows
\* ("not_found").
Resolved(kind, key, matches) == [kind |-> kind, key |-> key, matches |-> matches]

\* the command-line process: where main_async is, its arguments, the keys
\* they resolved to, what it printed and its exit code (-1 while it runs)
Proc(at, environment, user, env_key, user_key, stdout, stderr, exit_code) ==
    [at |-> at, environment |-> environment, user |-> user, env_key |-> env_key,
     user_key |-> user_key, stdout |-> stdout, stderr |-> stderr, exit_code |-> exit_code]
NoProc == Proc("none", NoStr, NoStr, NoStr, NoStr, << >>, << >>, -1)

\* a get_user_roles call: where it is, the token it got, the request made to
\* the second source of roles, the two role lists it returns
NoRoles == [at |-> "none", token |-> << >>, requests |-> << >>, response |-> "",
            jwt |-> << >>, userinfo |-> << >>, err |-> ""]

\* ------------------------------------------------------- inputs and Init
\* environment keys get_token is called with: a configured one, one whose
\* entry lacks sso_url, one unknown
EnvArgs == {<<"d">>, <<"q">>, <<"n">>}
\* user identifiers: an exact key, its email local-part, the unique prefix of
\* a client key, and two that are not configured (a client id, an email)
UserArgs == {<<"a", "@", "x">>, <<"a">>, <<"c">>, <<"z">>, <<"b", "@", "y">>}
\* what is typed at a masked secret prompt ("" is a bare Enter)
SecretInputs == {"", "s1"}
\* what is typed at a client id prompt
ClientIdInputs == {NoStr, <<"k">>, <<" ">>}
\* what is typed at the prompts of create_environment
DomainInputs == {<<"https://", "h", "/">>}
RealmInputs == {<<"m">>}

InitEnvironments(d_client_id) ==
    [k \in {<<"d">>, <<"q">>} |->
        IF k = <<"d">>
        THEN [sso_url |-> <<"https://", "h">>, realm |-> <<"m">>, client_id |-> d_client_id]
        ELSE [sso_url |-> Absent, realm |-> <<"m">>, client_id |-> Absent]]

UserA == [key |-> <<"a", "@", "x">>, auth_type |-> "password",
          email |-> <<"a", "@", "x">>, client_id |-> Absent]
UserC == [key |-> <<"c", "1">>, auth_type |-> "client_credentials",
          email |-> Absent, client_id |-> <<"c", "1">>]

InitUsers == [k \in {<<"d">>} |-> <<UserA, UserC>>]

InitConfig(d_client_id) ==
    [environments |-> InitEnvironments(d_client_id), users |-> InitUsers]

\* the keyring entries the configured users can have at the start
InitSecretKeys ==
    {get_secret_key(<<"d">>, UserA.key, "password"),
     get_secret_key(<<"d">>, UserC.key, "client_secret")}

NoCall == [environment |-> NoStr, user_key |-> NoStr, actual_key |-> NoStr, cred1 |-> NoStr,
           cred2 |-> NoSecret, auth_type |-> "", client_id |-> NoStr,
           keyring0 |-> << >>, config0 |-> << >>, keyring1 |-> << >>, config1 |-> << >>]

Init ==
    /\ \E cid \in {Absent, <<"k">>} : config = InitConfig(cid)
    /\ saved = config
    /\ \E have \in SUBSET InitSecretKeys : keyring = [k \in have |-> "s0"]
    /\ pc = "idle"
    /\ call = NoCall
    /\ log = << >>
    /\ result = ""
    /\ ncalls = 0
    /\ rq = NoStr
    /\ rout = Resolved("", NoStr, {})
    /\ proc = NoProc
    /\ roles = NoRoles

\* ----------------------------------------------------------------- actions
\* get_token up to the first POST (lines 209-224): get_sso_url,
\* get_user_credentials, the request body, the request.  The call keeps, next
\* to its locals, the configuration and keyring it started from (config0,
\* keyring0) and the keyring and configuration at the time of the first request
\* (keyring1, config1).
GetTokenStart(environment, user_key, sso_domain, realm, env_client_id, pw_new, pw_missing) ==
    /\ pc = "idle"
    /\ ncalls < MaxCalls
    /\ \E u \in {get_sso_url(St(config, saved, keyring, << >>), environment,
                              sso_domain, realm, env_client_id)} :
         IF u.err # ""
         THEN /\ config' = u.st.config
              /\ saved' = u.st.saved
              /\ keyring' = u.st.keyring
              /\ log' = u.st.log
              /\ pc' = "done"
              /\ result' = u.err
              /\ call' = [NoCall EXCEPT !.environment = environment, !.user_key = user_key,
                                        !.keyring0 = keyring, !.config0 = config,
                                        !.keyring1 = u.st.keyring,
                                        !.config1 = u.st.config]
         ELSE \E c \in {get_user_credentials(u.st, environment, user_key, pw_new, pw_missing)} :
                /\ config' = c.st.config
                /\ saved' = c.st.saved
                /\ keyring' = c.st.keyring
                /\ IF c.err # ""
                   THEN /\ pc' = "done"
                        /\ result' = c.err
                        /\ log' = c.st.log
                        /\ call' = [NoCall EXCEPT !.environment = environment,
                                                  !.user_key = user_key,
                                                  !.actual_key = c.actual_key,
                                                  !.keyring0 = keyring, !.config0 = config,
                                                  !.keyring1 = c.st.keyring,
                                                  !.config1 = c.st.config]
                   ELSE \E env_config \in {get_environment(c.st.config, environment)} :
                        \E client_id \in {IF env_config.client_id = Absent THEN NoStr
                                          ELSE env_config.client_id} :
                          /\ pc' = "first"
                          /\ result' = ""
                          /\ log' = Append(c.st.log,
                                           EvPost(GrantData(c.auth_type, c.cred1, c.cred2, client_id)))
                          /\ call' = [environment |-> environment, user_key |-> user_key,
                                      actual_key |-> c.actual_key, cred1 |-> c.cred1,
                                      cred2 |-> c.cred2, auth_type |-> c.auth_type,
                                      client_id |-> client_id,
                                      keyring0 |-> keyring, config0 |-> config,
                                      keyring1 |-> c.st.keyring,
                                      config1 |-> c.st.config]
    /\ ncalls' = ncalls + 1
    /\ UNCHANGED <<rq, rout, proc, roles>>

\* the first response arrives (lines 225-264): a 401 is recovered from and
\* the retry is sent, anything else ends the call
FirstResponse(status, new_client_id, new_secret) ==
    /\ pc = "first"
    /\ IF IsUnauthorized(status)
       THEN \E r \in {Recover(St(config, saved, keyring, Append(log, EvResp(status))),
                               call, new_client_id, new_secret)} :
              /\ config' = r.st.config
              /\ saved' = r.st.saved
              /\ keyring' = r.st.keyring
              /\ log' = Append(r.st.log, EvPost(r.data))
              /\ pc' = "retry"
              /\ result' = ""
       ELSE /\ UNCHANGED <<config, saved, keyring>>
            /\ log' = Append(log, EvResp(status))
            /\ pc' = "done"
            /\ result' = Outcome(status)
    /\ UNCHANGED <<call, ncalls, rq, rout, proc, roles>>

\* the response to the retry arrives (lines 259-271): the call ends
RetryResponse(status) ==
    /\ pc = "retry"
    /\ log' = Append(log, EvResp(status))
    /\ pc' = "done"
    /\ result' = Outcome(status)
    /\ UNCHANGED <<config, saved, keyring, call, ncalls, rq, rout, proc, roles>>

\* get_token has returned or raised; the caller goes on
Return ==
    /\ pc = "done"
    /\ pc' = "idle"
    /\ call' = NoCall
    /\ log' = << >>
    /\ result' = ""
    /\ UNCHANGED <<config, saved, keyring, ncalls, rq, rout, proc, roles>>

\* line 73: the prompts of create_environment are reached
AsksEnvironment(environment) == get_environment(config, environment) = NoEnv

\* line 165: the prompt of the creation branch is reached
AsksNewSecret(environment, user_key) ==
    ActualKey(config, environment, user_key)
        \notin UserKeys(get_available_users_for_environment(config, environment))

\* lines 192 / 202: the prompt for a missing secret is reached
AsksMissingSecret(environment, user_key, pw_new) ==
    IF AsksNewSecret(environment, user_key) THEN pw_new = ""
    ELSE LET actual_key == ActualKey(config, environment, user_key)
             users == get_available_users_for_environment(config, environment)
             u == users[CHOOSE i \in UserIndex(users, actual_key) : TRUE]
         IN  ~SecretTruthy(get_secret(keyring, environment, actual_key,
                                      SecretTypeOf(AuthTypeOf(u))))

\* lines 226-227: the client id prompt of the recovery is reached
AsksClientId == call.auth_type = "password" /\ ~Truthy(call.client_id)

\* a prompt that is not reached has no answer
Answers(reached, inputs, none) == IF reached THEN inputs ELSE {none}

Next ==
    \/ \E e \in EnvArgs, u \in UserArgs :
          \E d \in Answers(AsksEnvironment(e), DomainInputs, NoStr),
             r \in Answers(AsksEnvironment(e), RealmInputs, NoStr),
             ec \in Answers(AsksEnvironment(e), ClientIdInputs, NoStr),
             p1 \in Answers(AsksNewSecret(e, u), SecretInputs, "") :
               \E p2 \in Answers(AsksMissingSecret(e, u, p1), SecretInputs, "") :
                   GetTokenStart(e, u, d, r, ec, p1, p2)
    \/ \E s \in Statuses :
          \E cid \in Answers(IsUnauthorized(s) /\ AsksClientId, ClientIdInputs, NoStr),
             n \in Answers(IsUnauthorized(s), SecretInputs, "") :
               FirstResponse(s, cid, n)
    \/ \E s \in Statuses : RetryResponse(s)
    \/ Return

Spec == Init /\ [][Next]_vars

\* ------------------------------------------------- resolution in cli.py
\* cli.py resolve_environment
resolve_environment(cfg, env_arg) ==
    LET env_key == find_environment_by_prefix(cfg, env_arg)
        env_matches == find_environments_by_prefix(cfg, env_arg)
    IN  IF Truthy(env_key) THEN Resolved("found", env_key, {})
        ELSE IF Cardinality(env_matches) > 1 THEN Resolved("ambiguous", NoStr, env_matches)
        ELSE IF env_matches # {}
             THEN Resolved("found", CHOOSE k \in env_matches : TRUE, {})
        ELSE Resolved("not_found", env_arg, {})

\* cli.py resolve_user; the matches are the keys of the (key, display) list
resolve_user(cfg, env_key, user_arg) ==
    LET user_key == find_user_by_key(cfg, env_key, user_arg)
        user_matches == find_users_by_prefix(cfg, env_key, user_arg)
        keys == {user_matches[i][1] : i \in 1..Len(user_matches)}
    IN  IF Truthy(user_key) THEN Resolved("found", user_key, {})
        ELSE IF Len(user_matches) > 1 THEN Resolved("ambiguous", NoStr, keys)
        ELSE IF Len(user_matches) > 0 THEN Resolved("found", user_matches[1][1], {})
        ELSE Resolved("not_found", user_arg, {})

\* environment keys that can be configured, and what is typed for them
EnvKeyPool == {<<"d">>, <<"d", "e">>, <<"d", "e", "v">>, <<"d", "f">>, <<"p">>, <<"p", "r">>}
EnvQueries == EnvKeyPool \cup {<<"d", "e", "v", "2">>, <<"r">>, <<"p", "x">>}

\* user entries that can be configured in the environment, and what is typed
UserPool ==
    {[key |-> <<"a", "@", "x">>, auth_type |-> "password",
      email |-> <<"a", "@", "x">>, client_id |-> Absent],
     [key |-> <<"a", "b", "@", "x">>, auth_type |-> "password",
      email |-> <<"a", "b", "@", "x">>, client_id |-> Absent],
     [key |-> <<"c">>, auth_type |-> "password",
      email |-> <<"a", "@", "y">>, client_id |-> Absent],
     [key |-> <<"b">>, auth_type |-> "client_credentials",
      email |-> Absent, client_id |-> <<"a", "b">>],
     [key |-> <<"a">>, auth_type |-> "client_credentials",
      email |-> Absent, client_id |-> <<"k">>]}
UserQueries == {<<"a">>, <<"a", "b">>, <<"b">>, <<"c">>, <<"k">>, <<"z">>,
                <<"a", "@", "x">>, <<"a", "@">>}

\* the dictionaries of at most MaxUsers entries, in every insertion order
UserLists ==
    UNION {{us \in [1..n -> UserPool] : \A i, j \in 1..n : us[i] = us[j] => i = j}
              : n \in 0..MaxUsers}

ResolveEnv == <<"d">>

InitResolve ==
    /\ \/ /\ pc = "resolve_environment"
          /\ \E E \in SUBSET EnvKeyPool :
                config = [environments |->
                              [k \in E |-> [sso_url |-> <<"https://", "h">>,
                                            realm |-> <<"m">>, client_id |-> Absent]],
                          users |-> << >>]
          /\ rq \in EnvQueries
       \/ /\ pc = "resolve_user"
          /\ \E us \in UserLists :
                config = [environments |-> InitEnvironments(Absent),
                          users |-> [k \in {ResolveEnv} |-> us]]
          /\ rq \in UserQueries
    /\ saved = config
    /\ keyring = << >>
    /\ call = NoCall
    /\ log = << >>
    /\ result = ""
    /\ ncalls = 0
    /\ rout = Resolved("", NoStr, {})
    /\ proc = NoProc
    /\ roles = NoRoles

\* main_async line 251: env_key = resolve_environment(authenticator, args.environment)
ResolveEnvironment ==
    /\ pc = "resolve_environment"
    /\ rout' = resolve_environment(config, rq)
    /\ pc' = "resolved_environment"
    /\ UNCHANGED <<config, saved, keyring, call, log, result, ncalls, rq, proc, roles>>

\* main_async line 252: user_key = resolve_user(authenticator, env_key, args.user)
ResolveUser ==
    /\ pc = "resolve_user"
    /\ rout' = resolve_user(config, ResolveEnv, rq)
    /\ pc' = "resolved_user"
    /\ UNCHANGED <<config, saved, keyring, call, log, result, ncalls, rq, proc, roles>>

NextResolve == ResolveEnvironment \/ ResolveUser

SpecResolve == InitResolve /\ [][NextResolve]_vars

\* ============================================================== properties
\* the token requests of the current call, and the responses to them
Posts == SelectSeq(log, LAMBDA e : e.ev = "post")
Resps == SelectSeq(log, LAMBDA e : e.ev = "resp")
RespStatus(i) == Resps[i].key[1]
\* positions in the record of the call
PostAt(n) == CHOOSE i \in 1..Len(log) :
                 log[i].ev = "post" /\ Cardinality({j \in 1..i : log[j].ev = "post"}) = n
RespAt(n) == CHOOSE i \in 1..Len(log) :
                 log[i].ev = "resp" /\ Cardinality({j \in 1..i : log[j].ev = "resp"}) = n
SetsIn(from, to) == {i \in from..to : log[i].ev = "set"}
\* the answer typed at the replacement-secret prompt of the recovery
ReplacementAsked == \E i \in 1..Len(log) : log[i].key = <<"replacement_secret">>
ReplacementAt == CHOOSE i \in 1..Len(log) : log[i].key = <<"replacement_secret">>
\* the secret carried by a request body
SecretOf(data) ==
    IF data.grant_type = "client_credentials" THEN data.client_secret ELSE data.password

\* C1: when the initial request and the retry are both answered 401, the call
\* has ended with the authentication-failed error, exactly two requests were
\* sent, and nothing (no prompt, no request) follows the retry response; no
\* call ever sends a third request.
C1_AuthFailedAfterOneRetry ==
    /\ Len(Posts) <= 2
    /\ (Len(Resps) = 2 /\ RespStatus(1) = "401" /\ RespStatus(2) = "401") =>
          /\ pc = "done"
          /\ result = "AuthenticationFailed"
          /\ Len(Posts) = 2
          /\ RespAt(2) = Len(log)

C1_Witness ==
    /\ pc = "done" /\ Len(Resps) = 2
    /\ RespStatus(1) = "401" /\ RespStatus(2) = "401"
    /\ call.auth_type = "client_credentials"
    /\ result = "AuthenticationFailed"

\* C2: a second request is sent exactly when the first response is 401; any
\* other first response (another non-2xx status, a transport failure, a 2xx)
\* ends the call at once, with an error for the failures; at most two
\* requests are sent per call.
C2_RetryOnlyOn401 ==
    /\ Len(Posts) <= 2
    /\ Len(Posts) = 2 => (Len(Resps) >= 1 /\ RespStatus(1) = "401")
    /\ (Len(Resps) >= 1 /\ RespStatus(1) = "401") => Len(Posts) = 2
    /\ (Len(Resps) >= 1 /\ RespStatus(1) # "401") =>
          /\ pc = "done"
          /\ Len(Posts) = 1
          /\ RespStatus(1) = "500" => result = "HTTPStatusError"
          /\ RespStatus(1) = "neterr" => result = "TransportError"

C2_Witness ==
    /\ pc = "done" /\ Len(Resps) = 1 /\ RespStatus(1) = "500"
    /\ Len(Posts) = 1 /\ result = "HTTPStatusError"

\* the keyring entry the call read its secret from (the one get_secret call
\* of get_user_credentials)
ReadKey == log[CHOOSE i \in 1..Len(log) : log[i].ev = "get"].key
HasRead == \E i \in 1..Len(log) : log[i].ev = "get"

\* the identity of the call was configured, under the key given, when the
\* call started, and its secret was stored
CanonicalStored ==
    /\ call.user_key = call.actual_key
    /\ call.user_key \in UserKeys(get_available_users_for_environment(call.config0, call.environment))
    /\ SecretTruthy(get_secret(call.keyring0, call.environment, call.actual_key,
                               SecretTypeOf(call.auth_type)))

\* C3: for an identity addressed by its canonical key whose stored secret is
\* answered 401, a non-empty replacement secret is written to the keyring
\* before the retry is sent, the retry carries it, and when the retry is
\* answered with a token get_token returns the token and the keyring entry of
\* the identity holds the replacement secret.
C3_ReplacementStoredThenSent ==
    (/\ Len(Posts) = 2 /\ CanonicalStored
     /\ ReplacementAsked /\ log[ReplacementAt].secret # "") =>
        LET new == log[ReplacementAt].secret
            entry == get_secret_key(call.environment, call.actual_key,
                                    SecretTypeOf(call.auth_type))
        IN  /\ \E i \in SetsIn(RespAt(1), PostAt(2)) :
                    log[i].key = entry /\ log[i].secret = new
            /\ SecretOf(Posts[2].data) = new
            /\ entry \in DOMAIN keyring /\ keyring[entry] = new
            /\ (Len(Resps) = 2 /\ RespStatus(2) = "200") => (pc = "done" /\ result = "token")

C3_Witness ==
    /\ pc = "done" /\ result = "token" /\ Len(Resps) = 2
    /\ CanonicalStored /\ call.auth_type = "password"
    /\ ReplacementAsked /\ log[ReplacementAt].secret = "s1"
    /\ get_secret(call.keyring0, call.environment, call.actual_key, "password") = "s0"
    /\ get_secret(keyring, call.environment, call.actual_key, "password") = "s1"

\* C4: whatever identifier the user was given by (exact key, email
\* local-part, unique prefix), a replacement secret is written during the
\* recovery under the keyring entry the original secret was read from.
C4_RecoveryWritesTheEntryRead ==
    (Len(Resps) >= 1 /\ HasRead) =>
        \A i \in SetsIn(RespAt(1), Len(log)) : log[i].key = ReadKey

\* C5: when nothing is typed at the replacement-secret prompt, the retry is
\* sent once with the original secret and the keyring is not written during
\* the recovery.
C5_EmptyReplacementRetriesWithOriginal ==
    (Len(Resps) >= 1 /\ ReplacementAsked /\ log[ReplacementAt].secret = "") =>
        /\ Len(Posts) = 2
        /\ SecretOf(Posts[2].data) = call.cred2
        /\ SecretOf(Posts[2].data) = SecretOf(Posts[1].data)
        /\ SetsIn(RespAt(1), Len(log)) = {}
        /\ keyring = call.keyring1

C5_Witness ==
    /\ pc = "done" /\ Len(Resps) = 2 /\ Len(Posts) = 2
    /\ ReplacementAsked /\ log[ReplacementAt].secret = ""
    /\ SecretOf(Posts[2].data) = "s0"
    /\ keyring = call.keyring1

\* the keys of the configured environments, and of the users of one
EnvKeysOf(cfg) == DOMAIN cfg.environments
UserKeysOf(cfg, e) == IF e \in DOMAIN cfg.users THEN UserKeys(cfg.users[e]) ELSE {}
AllEnvKeys == EnvArgs \cup EnvKeysOf(config) \cup DOMAIN config.users

ConfiguredWithoutSecret ==
    /\ call.actual_key \in UserKeysOf(call.config0, call.environment)
    /\ ~SecretTruthy(get_secret(call.keyring0, call.environment, call.actual_key,
                                SecretTypeOf(call.auth_type)))

\* C7: when no secret is stored for the identity at the start of the call,
\* the secret is asked for and stored before the first request; in a call
\* that succeeds on its first request there is exactly one keyring write, it
\* follows the prompt, precedes the request and stores what was typed.
C7_MissingSecretStoredBeforeRequest ==
    (Len(Posts) >= 1 /\ ConfiguredWithoutSecret) =>
        /\ \E i \in SetsIn(1, PostAt(1)) :
              /\ log[i].key = get_secret_key(call.environment, call.actual_key,
                                             SecretTypeOf(call.auth_type))
              /\ i > 1 /\ log[i-1].ev = "prompt" /\ log[i-1].secret = log[i].secret
              /\ SecretOf(Posts[1].data) = log[i].secret
        /\ (pc = "done" /\ Len(Resps) = 1 /\ RespStatus(1) = "200") =>
              /\ Cardinality(SetsIn(1, Len(log))) = 1
              /\ SetsIn(1, Len(log)) \subseteq 1..PostAt(1)

C7_Witness ==
    /\ pc = "done" /\ result = "token" /\ Len(Resps) = 1
    /\ ConfiguredWithoutSecret
    /\ Cardinality(SetsIn(1, PostAt(1))) = 1
    /\ get_secret(keyring, call.environment, call.actual_key,
                   SecretTypeOf(call.auth_type)) = "s1"

\* ------------------------------------------- properties of the resolution
\* p is a prefix of s
IsPrefixOf(p, s) == \E n \in 0..Len(s) : SubSeq(s, 1, n) = p
\* the part of an email address before its first "@"
BeforeAt(e) ==
    LET n == CHOOSE k \in 0..Len(e) :
                 /\ \A i \in 1..k : e[i] # "@"
                 /\ (k = Len(e) \/ e[k + 1] = "@")
    IN  SubSeq(e, 1, n)
\* the users of the environment the identifier is resolved in
ResolveUsers == {config.users[ResolveEnv][i] : i \in 1..Len(config.users[ResolveEnv])}
HasEmail(u) == u.email # Absent /\ u.email # << >>
HasClientId(u) == u.client_id # Absent /\ u.client_id # << >>
\* the users that qualify in the prefix step
PrefixCandidates(q) ==
    {u \in ResolveUsers : \/ IsPrefixOf(q, u.key)
                          \/ (HasEmail(u) /\ IsPrefixOf(q, BeforeAt(u.email)))
                          \/ (HasClientId(u) /\ IsPrefixOf(q, u.client_id))}
\* the environment keys the query is a prefix of
EnvPrefixMatches(q) == {k \in DOMAIN config.environments : IsPrefixOf(q, k)}

\* C8: a query that equals a configured environment key resolves to that
\* key, also when it is a proper prefix of other configured keys.
C8_ExactEnvironmentKeyWins ==
    (pc = "resolved_environment" /\ rq \in DOMAIN config.environments) =>
        rout = Resolved("found", rq, {})

\* C9: user resolution returns the user whose key equals q; else a user whose
\* email local-part equals q; else the one user whose key, email local-part
\* or client id starts with q; else it fails, as ambiguous with all the
\* candidates when two or more qualify and as not found when none does.
C9_UserResolutionOrder ==
    pc = "resolved_user" =>
        LET byMail == {u \in ResolveUsers : HasEmail(u) /\ BeforeAt(u.email) = rq}
            cands == PrefixCandidates(rq)
        IN  IF \E u \in ResolveUsers : u.key = rq
            THEN rout = Resolved("found", rq, {})
            ELSE IF byMail # {}
            THEN rout.kind = "found" /\ rout.key \in {u.key : u \in byMail}
            ELSE IF Cardinality(cands) = 1
            THEN rout.kind = "found" /\ rout.key \in {u.key : u \in cands}
            ELSE IF Cardinality(cands) >= 2
            THEN rout = Resolved("ambiguous", NoStr, {u.key : u \in cands})
            ELSE rout = Resolved("not_found", rq, {})

\* the local-part step decides although two users qualify in the prefix step
C9_Witness ==
    /\ pc = "resolved_user"
    /\ \A u \in ResolveUsers : u.key # rq
    /\ Cardinality(PrefixCandidates(rq)) >= 2
    /\ rout.kind = "found"
    /\ \E u \in ResolveUsers : u.key = rout.key /\ HasEmail(u) /\ BeforeAt(u.email) = rq

\* C10: a query that is a prefix of exactly one configured environment key
\* resolves to that key; a query that is a prefix of none ends as not found
\* and one that is a prefix of two or more ends as ambiguous, and in both
\* cases no configured key is returned.
C10_EnvironmentPrefixResolution ==
    pc = "resolved_environment" =>
        LET m == EnvPrefixMatches(rq)
        IN  /\ Cardinality(m) = 1 => (rout.kind = "found" /\ rout.key \in m)
            /\ Cardinality(m) = 0 =>
                  (rout.kind = "not_found" /\ rout.key \notin DOMAIN config.environments)
            /\ Cardinality(m) >= 2 =>
                  /\ rout.kind = "ambiguous" /\ rout.matches = m
                  /\ rout.key \notin DOMAIN config.environments

\* a proper prefix of one key among several configured ones
C10_Witness ==
    /\ pc = "resolved_environment"
    /\ Cardinality(DOMAIN config.environments) >= 3
    /\ rq \notin DOMAIN config.environments
    /\ Cardinality(EnvPrefixMatches(rq)) = 1
    /\ rout.kind = "found" /\ rout.key \in EnvPrefixMatches(rq)

\* ------------------------------------------------------------------- C11
\* the configured entry of the identity the current call resolved
CallIdentity ==
    LET users == get_available_users_for_environment(config, call.environment)
    IN  users[CHOOSE i \in UserIndex(users, call.actual_key) : TRUE]
\* the client id an environment entry has configured, NoStr when it has none
ConfiguredClientId(cfg, e) ==
    LET env == get_environment(cfg, e)
    IN  IF env.client_id = Absent THEN NoStr ELSE env.client_id
\* the body a request of the given kind must have
ExpectedBody(u, secret, env_client_id) ==
    IF u.auth_type = "client_credentials"
    THEN [grant_type |-> "client_credentials", username |-> NoStr, password |-> NoSecret,
          client_id |-> u.client_id, client_secret |-> secret]
    ELSE [grant_type |-> "password", username |-> u.email, password |-> secret,
          client_id |-> env_client_id, client_secret |-> NoSecret]

\* C11: the body of the initial request and of the retry is determined by the
\* identity's auth kind.  A client-credentials identity sends
\* grant_type=client_credentials with its client id and its secret; a password
\* identity sends grant_type=password with its email and its secret, and a
\* client_id exactly when the environment has one configured at that time.
\* The secret of the initial request is the one the keyring holds for the
\* identity; the secret of the retry is the replacement typed, or the same
\* secret again when nothing was typed.
C11_GrantBodyByAuthKind ==
    Len(Posts) >= 1 =>
        LET u == CallIdentity
            first == get_secret(call.keyring1, call.environment, call.actual_key,
                                SecretTypeOf(u.auth_type))
        IN  /\ log[PostAt(1)].data =
                   ExpectedBody(u, first, ConfiguredClientId(call.config1, call.environment))
            /\ Len(Posts) = 2 =>
                   log[PostAt(2)].data =
                       ExpectedBody(u, IF log[ReplacementAt].secret # ""
                                       THEN log[ReplacementAt].secret ELSE first,
                                    ConfiguredClientId(config, call.environment))

\* a password identity whose retry carries a client id its initial request
\* did not carry, and a replacement secret
C11_Witness ==
    /\ pc = "retry"
    /\ Len(Posts) = 2
    /\ call.auth_type = "password"
    /\ log[PostAt(1)].data.client_id = NoStr
    /\ log[PostAt(2)].data.client_id = <<"k">>
    /\ log[PostAt(2)].data.password = "s1"

\* ------------------------------------------------------------------- C12
\* the client id prompt of the recovery and what was typed at it
ClientIdAsked == \E i \in 1..Len(log) : log[i].key = <<"client_id">>
ClientIdAskedAt == CHOOSE i \in 1..Len(log) : log[i].key = <<"client_id">>
ClientIdSupplied == Strip(log[ClientIdAskedAt].text)
SavesIn(from, to) == {i \in from..to : log[i].ev = "save"}

\* C12: after a 401 to the initial request, the client id prompt has been
\* shown only if the identity is a password identity and the environment had
\* no client id configured.  If a client id was supplied, the environment's
\* entry carries it (the rest of the configuration being as it was), the
\* configuration was saved between the prompt and the retry request, and the
\* retry carries it.  In every other case the configuration, in memory and
\* saved, is the one the initial request was sent with and no save happened
\* after that request.
C12_ClientIdCapture ==
    (Len(Posts) = 2 /\ RespStatus(1) = "401") =>
        LET e == call.environment
            was == call.config1
        IN  /\ ClientIdAsked =>
                   /\ CallIdentity.auth_type = "password"
                   /\ ConfiguredClientId(was, e) = NoStr
            /\ IF ClientIdAsked /\ ClientIdSupplied # NoStr
               THEN /\ config = [was EXCEPT !.environments[e].client_id = ClientIdSupplied]
                    /\ saved = config
                    /\ SavesIn(ClientIdAskedAt, PostAt(2)) # {}
                    /\ log[PostAt(2)].data.client_id = ClientIdSupplied
               ELSE /\ config = was
                    /\ saved = was
                    /\ SavesIn(PostAt(1), Len(log)) = {}

\* a client id was typed at the prompt of the recovery and the retry is out
C12_Witness ==
    /\ pc = "retry"
    /\ ClientIdAsked
    /\ ClientIdSupplied = <<"k">>
    /\ get_environment(config, call.environment).client_id = <<"k">>

\* the prompt was answered with blanks only: nothing was supplied
C12_WitnessBlank ==
    /\ pc = "retry"
    /\ ClientIdAsked
    /\ log[ClientIdAskedAt].text = <<" ">>

\* ------------------------------------- the command `tool <env> <user>`
\* main_async, lines 249-272, without --roles: the two arguments are
\* resolved, get_token is awaited, the token is printed or the error is
\* reported and the process exits.

\* an exit status that reports success whatever get_token ended with
ExitCode_AlwaysSuccess(res) == 0

\* lines 269-272 and the end of main: the exit status after get_token
ExitCode(res) == IF res = "token" THEN 0 ELSE 1

\* line 268: print(token) is reached only when get_token returned
PrintedToken(res) == IF res = "token" THEN <<[line |-> "token", of |-> res]>> ELSE << >>

\* line 271: the message on the error stream
PrintedError(res) == IF res = "token" THEN << >> ELSE <<[line |-> "error", of |-> res]>>

\* a second client of environment d, which makes the identifier "c" ambiguous
UserC2 == [key |-> <<"c", "2">>, auth_type |-> "client_credentials",
           email |-> Absent, client_id |-> <<"c", "2">>]

\* what is typed on the command line
CliEnvArgs == {<<"d">>, <<"q">>, <<"n">>}
CliUserArgs == {<<"a", "@", "x">>, <<"a">>, <<"c">>, <<"c", "1">>, <<"z">>}

\* the configuration of the command: environments d, q (without sso_url) and
\* qq, so that "q" is an ambiguous environment; users a@x, c1 and c2 of d
InitCli ==
    /\ \E cid \in {Absent, <<"k">>} :
          config = [environments |->
                        DictPut(InitEnvironments(cid), <<"q", "q">>,
                                [sso_url |-> <<"https://", "h">>, realm |-> <<"m">>,
                                 client_id |-> Absent]),
                    users |-> [k \in {<<"d">>} |-> <<UserA, UserC, UserC2>>]]
    /\ saved = config
    /\ \E have \in SUBSET InitSecretKeys : keyring = [k \in have |-> "s0"]
    /\ pc = "idle"
    /\ call = NoCall
    /\ log = << >>
    /\ result = ""
    /\ ncalls = 0
    /\ rq = NoStr
    /\ rout = Resolved("", NoStr, {})
    /\ \E e \in CliEnvArgs, u \in CliUserArgs :
          proc = Proc("start", e, u, NoStr, NoStr, << >>, << >>, -1)
    /\ roles = NoRoles

\* lines 250-252: resolve_environment and resolve_user; each ends the
\* process with sys.exit(1) on an ambiguous argument, after printing the
\* candidates
MainResolve ==
    /\ proc.at = "start"
    /\ \E e \in {resolve_environment(config, proc.environment)} :
         IF e.kind = "ambiguous"
         THEN proc' = [proc EXCEPT !.at = "exited", !.exit_code = 1,
                                   !.stdout = Append(@, [line |-> "ambiguous", of |-> "environment"])]
         ELSE \E u \in {resolve_user(config, e.key, proc.user)} :
                IF u.kind = "ambiguous"
                THEN proc' = [proc EXCEPT !.at = "exited", !.exit_code = 1, !.env_key = e.key,
                                          !.stdout = Append(@, [line |-> "ambiguous", of |-> "user"])]
                ELSE proc' = [proc EXCEPT !.at = "get_token", !.env_key = e.key,
                                          !.user_key = u.key]
    /\ UNCHANGED <<config, saved, keyring, pc, call, log, result, ncalls, rq, rout, roles>>

\* line 267 with cli.py 86-88: get_token is called with the resolved keys
MainGetToken(sso_domain, realm, env_client_id, pw_new, pw_missing) ==
    /\ proc.at = "get_token"
    /\ GetTokenStart(proc.env_key, proc.user_key, sso_domain, realm, env_client_id,
                     pw_new, pw_missing)

\* lines 268-272: the token is printed and main returns, or the exception is
\* reported on the error stream and the process exits with 1
MainFinish ==
    /\ proc.at = "get_token"
    /\ pc = "done"
    /\ proc' = [proc EXCEPT !.at = "exited", !.exit_code = ExitCode(result),
                            !.stdout = @ \o PrintedToken(result),
                            !.stderr = @ \o PrintedError(result)]
    /\ UNCHANGED <<config, saved, keyring, pc, call, log, result, ncalls, rq, rout, roles>>

NextCli ==
    \/ MainResolve
    \/ \E d \in Answers(AsksEnvironment(proc.env_key), DomainInputs, NoStr),
          r \in Answers(AsksEnvironment(proc.env_key), RealmInputs, NoStr),
          ec \in Answers(AsksEnvironment(proc.env_key), ClientIdInputs, NoStr),
          p1 \in Answers(AsksNewSecret(proc.env_key, proc.user_key), SecretInputs, "") :
            \E p2 \in Answers(AsksMissingSecret(proc.env_key, proc.user_key, p1),
                              SecretInputs, "") :
                MainGetToken(d, r, ec, p1, p2)
    \/ \E s \in Statuses :
          \E cid \in Answers(IsUnauthorized(s) /\ AsksClientId, ClientIdInputs, NoStr),
             n \in Answers(IsUnauthorized(s), SecretInputs, "") :
               FirstResponse(s, cid, n)
    \/ \E s \in Statuses : RetryResponse(s)
    \/ MainFinish

SpecCli == InitCli /\ [][NextCli]_vars

\* ------------------------------------------------------------------- C13
\* the token lines on standard output
TokenLines == {i \in 1..Len(proc.stdout) : proc.stdout[i].line = "token"}
\* the acquisition ended with a 2xx response that contains an access_token
EndedWithToken == pc = "done" /\ Len(Resps) >= 1 /\ RespStatus(Len(Resps)) = "200"

\* C13: in the command form `tool <env> <user>`, standard output carries a
\* token only if the acquisition ended with a 2xx response containing an
\* access_token, and then the process has exited with code 0; once the process
\* has exited after any other outcome (ambiguous argument, authentication
\* failure, other non-2xx status, transport failure, 2xx without access_token,
\* a configuration error) nothing of a token is on standard output and the
\* exit code is 1.
C13_TokenOnlyOnSuccess ==
    /\ TokenLines # {} => (EndedWithToken /\ proc.at = "exited" /\ proc.exit_code = 0)
    /\ proc.at = "exited" =>
          IF EndedWithToken
          THEN /\ proc.exit_code = 0
               /\ Cardinality(TokenLines) = 1
               /\ proc.stderr = << >>
          ELSE /\ proc.exit_code = 1
               /\ TokenLines = {}

\* the process has exited after a retry that was answered without a token
C13_Witness ==
    /\ proc.at = "exited"
    /\ Len(Resps) = 2
    /\ RespStatus(2) \in {"200_no_token", "500", "neterr", "401"}
    /\ proc.exit_code = 1

\* ----------------------------------------------------- remove_environment
\* lines 83-85: both secret kinds of every configured user key are deleted
RECURSIVE DeleteUserSecrets(_, _, _)
DeleteUserSecrets(ring, env_key, user_keys) ==
    IF user_keys = << >> THEN ring
    ELSE DeleteUserSecrets(
             delete_secret(delete_secret(ring, env_key, Head(user_keys), "password"),
                           env_key, Head(user_keys), "client_secret"),
             env_key, Tail(user_keys))

\* del d[k] on a dictionary d
DictDel(d, k) == [x \in (DOMAIN d) \ {k} |-> d[x]]

\* SSOAuthenticator.remove_environment; ret is what it returns
remove_environment(st, env_key) ==
    IF env_key \notin DOMAIN st.config.environments
    THEN [st |-> st, ret |-> FALSE]
    ELSE LET Drop(s) ==
                 IF env_key \in DOMAIN s.config.users
                 THEN LET users == s.config.users[env_key]
                      IN  [s EXCEPT !.keyring =
                                        DeleteUserSecrets(@, env_key,
                                            [i \in 1..Len(users) |-> users[i].key]),
                                    !.config.users = DictDel(@, env_key)]
                 ELSE s
             dropped == Bind(st, Drop)
         IN  [st |-> save_config([dropped EXCEPT !.config.environments = DictDel(@, env_key)]),
              ret |-> TRUE]

\* the record of a remove_environment call that has returned
EvRemoved(env_key, ret) ==
    Event("removed", env_key, "", IF ret THEN <<"True">> ELSE <<"False">>, NoData)

\* remove_environment(env_key) is called between two get_token calls
RemoveEnvironment(env_key) ==
    /\ pc = "idle"
    /\ \E r \in {remove_environment(St(config, saved, keyring, << >>), env_key)} :
         /\ config' = r.st.config
         /\ saved' = r.st.saved
         /\ keyring' = r.st.keyring
         /\ log' = <<EvRemoved(env_key, r.ret)>>
    /\ UNCHANGED <<pc, call, result, ncalls, rq, rout, proc, roles>>

\* token acquisitions, recoveries, environment and user creation, and
\* removals of environments, in any order
NextRemove ==
    \/ Next
    \/ \E e \in EnvArgs : RemoveEnvironment(e)

SpecRemove == Init /\ [][NextRemove]_vars

\* ------------------------------------------------------------------- C14
\* remove_environment(e) has just returned True
JustRemoved(e) == pc = "idle" /\ log = <<EvRemoved(e, TRUE)>>
\* the keyring entries stored for environment e
SecretsOf(ring, e) == {k \in DOMAIN ring : StartsWith(k, e \o <<":">>)}

\* C14: once remove_environment(E) has returned True, whatever environment
\* and user creations, token acquisitions and credential recoveries came
\* before, the configuration has neither the environment E nor users of E and
\* the keyring holds no secret stored for E.
C14_RemoveCascadesToSecrets ==
    \A e \in EnvArgs :
        JustRemoved(e) =>
            /\ e \notin DOMAIN config.environments
            /\ e \notin DOMAIN config.users
            /\ SecretsOf(keyring, e) = {}

\* the part of C14 that is about the configuration alone
C14_ConfigurationPart ==
    \A e \in EnvArgs :
        JustRemoved(e) => (e \notin DOMAIN config.environments /\ e \notin DOMAIN config.users)

\* --------------------------------------------- _extract_roles_from_payload
\* A claims object.  realm_access and every resource's access is absent, not
\* a dict, a dict without "roles", or a dict with a role list; resource_access
\* is absent, not a dict, or a dict whose items are kept in insertion order.
Access(kind, role_list) == [kind |-> kind, roles |-> role_list]
ResourceAccess(kind, items) == [kind |-> kind, items |-> items]
Payload(json, realm_access, resource_access) ==
    [json |-> json, realm_access |-> realm_access, resource_access |-> resource_access]
\* the empty dict {}
EmptyClaims == Payload("object", Access("absent", << >>), ResourceAccess("absent", << >>))

\* ord() of the characters role names are made of
CharCode == [c \in {":", "a", "b", "s", "t", "x"} |->
                CASE c = ":" -> 58 [] c = "a" -> 97 [] c = "b" -> 98
                  [] c = "s" -> 115 [] c = "t" -> 116 [] c = "x" -> 120]

\* a <= b for Python strings: code point by code point, a prefix first
RECURSIVE StrLeq(_, _)
StrLeq(a, b) ==
    IF a = << >> THEN TRUE
    ELSE IF b = << >> THEN FALSE
    ELSE IF CharCode[Head(a)] < CharCode[Head(b)] THEN TRUE
    ELSE IF CharCode[Head(a)] > CharCode[Head(b)] THEN FALSE
    ELSE StrLeq(Tail(a), Tail(b))

\* x put into the sorted list s behind the elements that are not greater
RECURSIVE InsertSorted(_, _)
InsertSorted(x, s) ==
    IF s = << >> THEN <<x>>
    ELSE IF StrLeq(Head(s), x) THEN <<Head(s)>> \o InsertSorted(x, Tail(s))
    ELSE <<x>> \o s

\* a role list returned in the order it was collected in
sorted_AsCollected(role_list) == role_list

\* sorted(roles), a stable sort of the list
RECURSIVE sorted(_)
sorted(role_list) ==
    IF role_list = << >> THEN << >>
    ELSE InsertSorted(role_list[Len(role_list)],
                      sorted(SubSeq(role_list, 1, Len(role_list) - 1)))

\* lines 287-289: roles.extend(payload["realm_access"]["roles"])
RealmRoles(payload) ==
    IF payload.realm_access.kind = "roles" THEN payload.realm_access.roles ELSE << >>

\* lines 292-294: f"{resource}:{role}" for the roles of one resource
ResourceRoles(item) ==
    IF item.access.kind = "roles"
    THEN [i \in 1..Len(item.access.roles) |-> item.resource \o <<":">> \o item.access.roles[i]]
    ELSE << >>

\* lines 290-294: the loop over payload["resource_access"].items()
RECURSIVE ResourcesRoles(_)
ResourcesRoles(items) ==
    IF items = << >> THEN << >>
    ELSE ResourceRoles(Head(items)) \o ResourcesRoles(Tail(items))

\* SSOAuthenticator._extract_roles_from_payload, for a payload that is a dict
extract_roles_from_payload(payload) ==
    sorted(RealmRoles(payload)
           \o (IF payload.resource_access.kind = "dict"
               THEN ResourcesRoles(payload.resource_access.items) ELSE << >>))

\* ------------------------------------------------------ _decode_jwt_payload
\* A token is a sequence of pieces; "." is the separator, any other piece is
\* a run of characters: the base64url text of a claims object, of {}, of 5,
\* of "{" , a single alphabet character, and runs of one and of four
\* characters that are not in the base64 alphabet.
ClaimsChunk ==
    "eyJyZWFsbV9hY2Nlc3MiOnsicm9sZXMiOlsiYiIsImEiXX0sInJlc291cmNlX2FjY2VzcyI6eyJzIjp7InJvbGVzIjpbIngiXX19fQ"
\* what ClaimsChunk encodes
ClaimsOfChunk ==
    Payload("object", Access("roles", <<<<"b">>, <<"a">>>>),
            ResourceAccess("dict", <<[resource |-> <<"s">>, access |-> Access("roles", <<<<"x">>>>)]>>))
\* the JSON number 5, which json.loads returns as it is
JsonNumber == Payload("number", Access("absent", << >>), ResourceAccess("absent", << >>))
JsonError == Payload("error", Access("absent", << >>), ResourceAccess("absent", << >>))

AlphabetChunks == {ClaimsChunk, "e30", "NQ", "e3", "e", "h", "s"}
OtherChunks == {"!", "!!!!"}
\* len() of a piece
ChunkLen(c) ==
    CASE c = ClaimsChunk -> 102 [] c = "e30" -> 3 [] c = "NQ" -> 2 [] c = "e3" -> 2
      [] c = "!!!!" -> 4 [] OTHER -> 1

RECURSIVE SegLen(_)
SegLen(seg) == IF seg = << >> THEN 0 ELSE ChunkLen(Head(seg)) + SegLen(Tail(seg))

\* token.split('.')
RECURSIVE split(_)
split(token) ==
    IF \A i \in 1..Len(token) : token[i] # "." THEN <<token>>
    ELSE LET i == CHOOSE k \in 1..Len(token) :
                      token[k] = "." /\ \A j \in 1..(k - 1) : token[j] # "."
         IN  <<SubSeq(token, 1, i - 1)>> \o split(SubSeq(token, i + 1, Len(token)))

\* line 279: the number of "=" appended to the payload
Padding(seg) == IF SegLen(seg) % 4 # 0 THEN 4 - (SegLen(seg) % 4) ELSE 0

B64Error == <<"<binascii.Error>">>
\* base64.urlsafe_b64decode of seg followed by pad "=": characters outside
\* the alphabet are discarded; one data character more than a multiple of
\* four, or too little padding for two or three, is an error.  The bytes are
\* stood for by the characters they were decoded from.
urlsafe_b64decode(seg, pad) ==
    LET data == SelectSeq(seg, LAMBDA c : c \in AlphabetChunks)
        r == SegLen(data) % 4
    IN  IF r = 0 \/ (r = 2 /\ pad >= 2) \/ (r = 3 /\ pad >= 1) THEN data ELSE B64Error

\* json.loads of decoded bytes
json_loads(decoded) ==
    CASE decoded = <<ClaimsChunk>> -> ClaimsOfChunk
      [] decoded = <<"e30">> -> EmptyClaims
      [] decoded = <<"NQ">> -> JsonNumber
      [] OTHER -> JsonError

\* SSOAuthenticator._decode_jwt_payload; every exception is caught
decode_jwt_payload(token) ==
    LET parts == split(token)
    IN  IF Len(parts) # 3 THEN EmptyClaims
        ELSE LET decoded == urlsafe_b64decode(parts[2], Padding(parts[2]))
             IN  IF decoded = B64Error THEN EmptyClaims
                 ELSE IF json_loads(decoded) = JsonError THEN EmptyClaims
                 ELSE json_loads(decoded)

\* ------------------------------------------- inputs of the two functions
SeqsUpTo(S, n) == UNION {[1..k -> S] : k \in 0..n}

RealmRolePool == {<<"a">>, <<"b">>, <<"s", ":", "x">>}
ResourceRolePool == {<<"x">>, <<"a">>}
ResourceNames == {<<"s">>, <<"t">>}

RealmAccessInputs ==
    {Access("absent", << >>), Access("not_dict", << >>), Access("no_roles", << >>)}
        \cup {Access("roles", rs) : rs \in SeqsUpTo(RealmRolePool, MaxRoles)}
AccessInputs ==
    {Access("not_dict", << >>), Access("no_roles", << >>)}
        \cup {Access("roles", rs) : rs \in SeqsUpTo(ResourceRolePool, MaxRoles)}
\* the items of a dict: no resource name twice, every insertion order
ItemInputs ==
    {items \in SeqsUpTo([resource : ResourceNames, access : AccessInputs],
                        Cardinality(ResourceNames)) :
        \A i, j \in 1..Len(items) : items[i].resource = items[j].resource => i = j}
ResourceAccessInputs ==
    {ResourceAccess("absent", << >>), ResourceAccess("not_dict", << >>)}
        \cup {ResourceAccess("dict", items) : items \in ItemInputs}
PayloadInputs ==
    {Payload("object", ra, rs) : ra \in RealmAccessInputs, rs \in ResourceAccessInputs}

MiddleInputs == SeqsUpTo({ClaimsChunk, "e30", "NQ", "e3", "e", "!", "!!!!"}, MaxChunks)
SignatureInputs == {<< >>, <<"s">>, <<"!">>}
TokenInputs ==
    MiddleInputs
        \cup {<<"h", ".">> \o m : m \in MiddleInputs}
        \cup {<<"h", ".">> \o m \o <<".">> \o sg : m \in MiddleInputs, sg \in SignatureInputs}
        \cup {<<"h", ".">> \o m \o <<".", "s", ".", "s">> : m \in MiddleInputs}

InitClaims ==
    /\ \/ pc = "extract" /\ rq \in PayloadInputs
       \/ pc = "decode" /\ rq \in TokenInputs
    /\ rout = << >>
    /\ config = InitConfig(Absent)
    /\ saved = config
    /\ keyring = << >>
    /\ call = NoCall
    /\ log = << >>
    /\ result = ""
    /\ ncalls = 0
    /\ proc = NoProc
    /\ roles = NoRoles

\* _extract_roles_from_payload(rq) is called, up to twice on the same object;
\* rout collects what the calls returned
ExtractRoles ==
    /\ pc = "extract"
    /\ Len(rout) < 2
    /\ rout' = Append(rout, extract_roles_from_payload(rq))
    /\ UNCHANGED <<config, saved, keyring, pc, call, log, result, ncalls, rq, proc, roles>>

\* _decode_jwt_payload(rq) is called and returns
DecodeJwtPayload ==
    /\ pc = "decode"
    /\ rout' = <<decode_jwt_payload(rq)>>
    /\ pc' = "decoded"
    /\ UNCHANGED <<config, saved, keyring, call, log, result, ncalls, rq, proc, roles>>

NextClaims == ExtractRoles \/ DecodeJwtPayload

SpecClaims == InitClaims /\ [][NextClaims]_vars

\* ------------------------------------------------------------------- C15
\* the role strings the claims object gives: its realm roles and
\* "<resource>:<role>" for every role of every resource
RoleUnion(payload) ==
    {payload.realm_access.roles[i] :
        i \in 1..(IF payload.realm_access.kind = "roles"
                  THEN Len(payload.realm_access.roles) ELSE 0)}
    \cup
    (IF payload.resource_access.kind # "dict" THEN {}
     ELSE UNION {{it.resource \o <<":">> \o it.access.roles[i] :
                     i \in 1..(IF it.access.kind = "roles" THEN Len(it.access.roles) ELSE 0)}
                 : it \in {payload.resource_access.items[k] :
                               k \in 1..Len(payload.resource_access.items)}})
IsSorted(s) == \A i \in 1..(Len(s) - 1) : StrLeq(s[i], s[i + 1])
NoRepeat(s) == \A i, j \in 1..Len(s) : s[i] = s[j] => i = j
Extracted == pc = "extract" /\ Len(rout) >= 1

\* C15: what extractRoles returns is sorted lexicographically, repeats no
\* element, and its elements are exactly the realm roles together with
\* "<resource_name>:<role>" for each role of each resource_access entry.
C15_SortedSetOfUnion ==
    Extracted =>
        /\ IsSorted(rout[1])
        /\ NoRepeat(rout[1])
        /\ {rout[1][i] : i \in 1..Len(rout[1])} = RoleUnion(rq)

\* C15 without the "no element repeated": sorted, and the elements are the
\* union
C15_SortedListOfUnion ==
    Extracted =>
        /\ IsSorted(rout[1])
        /\ {rout[1][i] : i \in 1..Len(rout[1])} = RoleUnion(rq)

\* ------------------------------------------------------------------- C16
\* s in every order of its elements
Orders(s) == {[i \in 1..Len(s) |-> s[f[i]]] : f \in Permutations(1..Len(s))}
\* an access with its role list in every order
AccessOrders(a) == {Access(a.kind, rs) : rs \in Orders(a.roles)}
\* the items of a dict with every role list in every order (same item order)
RECURSIVE ItemRoleOrders(_)
ItemRoleOrders(items) ==
    IF items = << >> THEN {<< >>}
    ELSE {<<[resource |-> Head(items).resource, access |-> a]>> \o rest :
             a \in AccessOrders(Head(items).access), rest \in ItemRoleOrders(Tail(items))}
\* the claims objects of the same content as payload: resource_access entries
\* inserted in any order, role lists in any order
Reorderings(payload) ==
    {Payload(payload.json, ra, ResourceAccess(payload.resource_access.kind, items)) :
        ra \in AccessOrders(payload.realm_access),
        items \in UNION {Orders(its) : its \in ItemRoleOrders(payload.resource_access.items)}}

\* C16: extractRoles called again on the same claims object returns the same
\* sequence, and every claims object of the same content (resource_access
\* entries inserted in another order, role lists in another order) gives that
\* sequence too.
C16_IdempotentOrderIndependent ==
    Extracted =>
        /\ \A i \in 1..Len(rout) : rout[i] = rout[1]
        /\ \A other \in Reorderings(rq) : extract_roles_from_payload(other) = rout[1]

\* two calls were made on an object with two resources and a realm role
\* list of two different roles, whose result is not the collection order
C16_Witness ==
    /\ pc = "extract"
    /\ Len(rout) = 2
    /\ rq.realm_access.kind = "roles"
    /\ rq.realm_access.roles = <<<<"b">>, <<"a">>>>
    /\ rq.resource_access.kind = "dict"
    /\ Len(rq.resource_access.items) = 2
    /\ rq.resource_access.items[1].resource = <<"t">>
    /\ rq.resource_access.items[1].access.kind = "roles"
    /\ rq.resource_access.items[1].access.roles = <<<<"x">>, <<"a">>>>
    /\ rout[1] = <<<<"a">>, <<"b">>, <<"t", ":", "a">>, <<"t", ":", "x">>>>

\* ------------------------------------------------------------------- C17
Decoded == pc = "decoded"
\* the middle segment is base64url text: alphabet characters only, and not
\* one character more than a multiple of four
ValidBase64Url(seg) ==
    /\ \A i \in 1..Len(seg) : seg[i] \in AlphabetChunks
    /\ SegLen(seg) % 4 # 1
\* the alphabet characters of the segment decode to JSON text
ValidJson(seg) == json_loads(SelectSeq(seg, LAMBDA c : c \in AlphabetChunks)) # JsonError

\* C17: decodeUnverified returns empty claims for every token that does not
\* have exactly three dot-separated segments, or whose middle segment is not
\* valid base64url or not valid JSON.
C17_MalformedDecodesToEmpty ==
    Decoded =>
        LET parts == split(rq)
        IN  (Len(parts) # 3 \/ ~ValidBase64Url(parts[2]) \/ ~ValidJson(parts[2]))
                => rout[1] = EmptyClaims

\* the parts of C17 that hold: a token without exactly three segments, or
\* whose middle segment is base64url text that is not JSON, gives empty
\* claims, and the result does not depend on the signature segment
C17_SoftFailureIgnoringSignature ==
    Decoded =>
        LET parts == split(rq)
        IN  /\ Len(parts) # 3 => rout[1] = EmptyClaims
            /\ (Len(parts) = 3 /\ ValidBase64Url(parts[2]) /\ ~ValidJson(parts[2]))
                   => rout[1] = EmptyClaims
            /\ Len(parts) = 3 =>
                   \A sg \in SignatureInputs :
                       decode_jwt_payload(parts[1] \o <<".">> \o parts[2] \o <<".">> \o sg)
                           = rout[1]

\* ----------------------------------------------------------- get_user_roles
\* get_user_roles (lines 297-318): get_token, the roles of the decoded
\* token, one request to the second source of roles, the two lists.

\* the access tokens a provider can answer with: a JWT with roles, an opaque
\* token, a JWT-shaped token whose payload is not JSON, one whose payload is
\* the JSON number 5
AccessTokens ==
    {<<"h", ".", ClaimsChunk, ".", "s">>, <<"h">>, <<"h", ".", "e3", ".", "s">>,
     <<"h", ".", "NQ", ".", "s">>}

\* how the request to the second source can end: 2xx with a JSON object,
\* 2xx with JSON that is not an object, 2xx with a body that is not JSON, a
\* non-2xx status, a timeout, a transport error
SecondaryStatuses == {"200", "200_not_object", "200_not_json", "500", "timeout", "neterr"}
SecondaryBodies == {ClaimsOfChunk, EmptyClaims}

\* the request of lines 303-308
UserinfoRequest(sso_url, token) ==
    [method |-> "GET", url |-> sso_url \o <<"/protocol/openid-connect/userinfo">>,
     authorization |-> <<"Bearer ">> \o token, data |-> << >>]

\* a failure of the second request that is not caught
userinfo_roles_Uncaught(status, body) ==
    IF status = "200" THEN [raised |-> FALSE, roles |-> extract_roles_from_payload(body)]
    ELSE [raised |-> TRUE, roles |-> << >>]

\* lines 305-313: userinfo_roles after the try block; every exception of the
\* request, of raise_for_status, of json() and of the extraction is caught
userinfo_roles(status, body) ==
    IF status = "200" THEN [raised |-> FALSE, roles |-> extract_roles_from_payload(body)]
    ELSE [raised |-> FALSE, roles |-> << >>]

\* line 298 raised: get_token ended with an error, which get_user_roles
\* does not catch
RolesTokenError ==
    /\ pc = "done"
    /\ roles.at = "none"
    /\ result # "token"
    /\ roles' = [roles EXCEPT !.at = "raised", !.err = result]
    /\ UNCHANGED <<config, saved, keyring, pc, call, log, result, ncalls, rq, rout, proc>>

\* lines 298-308: get_token returned token; its payload is decoded and the
\* roles extracted ("realm_access" in payload raises TypeError if the payload
\* is a number), get_sso_url is called again and the request is sent
RolesRequest(token) ==
    /\ pc = "done"
    /\ roles.at = "none"
    /\ result = "token"
    /\ \E jwt_payload \in {decode_jwt_payload(token)},
          u \in {get_sso_url(St(config, saved, keyring, log), call.environment,
                             NoStr, NoStr, NoStr)} :
         /\ roles' =
               IF jwt_payload.json # "object"
               THEN [roles EXCEPT !.at = "raised", !.token = token, !.err = "TypeError"]
               ELSE IF u.err # ""
               THEN [roles EXCEPT !.at = "raised", !.token = token, !.err = u.err]
               ELSE [roles EXCEPT !.at = "secondary", !.token = token,
                                  !.jwt = extract_roles_from_payload(jwt_payload),
                                  !.requests = Append(@, UserinfoRequest(u.url, token))]
         /\ config' = u.st.config
         /\ saved' = u.st.saved
         /\ keyring' = u.st.keyring
         /\ log' = u.st.log
    /\ UNCHANGED <<pc, call, result, ncalls, rq, rout, proc>>

\* lines 308-318: the request ends and get_user_roles returns
SecondaryResponse(status, body) ==
    /\ roles.at = "secondary"
    /\ \E r \in {userinfo_roles(status, body)} :
         roles' = IF r.raised
                  THEN [roles EXCEPT !.at = "raised", !.response = status, !.err = status]
                  ELSE [roles EXCEPT !.at = "returned", !.response = status,
                                     !.userinfo = r.roles]
    /\ UNCHANGED <<config, saved, keyring, pc, call, log, result, ncalls, rq, rout, proc>>

NextRoles ==
    \/ \E e \in {<<"d">>, <<"n">>}, u \in {<<"a">>, <<"c">>, <<"z">>} :
          \E d \in Answers(AsksEnvironment(e), DomainInputs, NoStr),
             r \in Answers(AsksEnvironment(e), RealmInputs, NoStr),
             ec \in Answers(AsksEnvironment(e), ClientIdInputs, NoStr),
             p1 \in Answers(AsksNewSecret(e, u), SecretInputs, "") :
               \E p2 \in Answers(AsksMissingSecret(e, u, p1), SecretInputs, "") :
                   GetTokenStart(e, u, d, r, ec, p1, p2)
    \/ \E s \in Statuses :
          \E cid \in Answers(IsUnauthorized(s) /\ AsksClientId, ClientIdInputs, NoStr),
             n \in Answers(IsUnauthorized(s), SecretInputs, "") :
               FirstResponse(s, cid, n)
    \/ \E s \in Statuses : RetryResponse(s)
    \/ RolesTokenError
    \/ \E t \in AccessTokens : RolesRequest(t)
    \/ \E s \in SecondaryStatuses :
          \E b \in Answers(s = "200", SecondaryBodies, EmptyClaims) : SecondaryResponse(s, b)

SpecRoles == Init /\ [][NextRoles]_vars

\* ------------------------------------------------------------------- C18
\* the request to the second source failed
SecondaryFailed == roles.response \in SecondaryStatuses \ {"200"}

\* C18: when the token has been acquired and the call to the second source
\* of roles failed (timeout, transport error, non-2xx status, unparsable
\* body), get_user_roles has returned, the second list is empty and the first
\* list is the roles extracted from the decoded token; and no get_user_roles
\* call that sent its request ends with an exception.
C18_SecondaryFailureDegrades ==
    /\ SecondaryFailed =>
          /\ roles.at = "returned"
          /\ roles.userinfo = << >>
          /\ roles.jwt = extract_roles_from_payload(decode_jwt_payload(roles.token))
    /\ roles.at = "raised" => roles.requests = << >>

\* the request of a call whose token carries roles timed out
C18_Witness ==
    /\ roles.at = "returned"
    /\ roles.response = "timeout"
    /\ roles.token = <<"h", ".", ClaimsChunk, ".", "s">>
    /\ roles.jwt = <<<<"a">>, <<"b">>, <<"s", ":", "x">>>>
    /\ roles.userinfo = << >>

\* ------------------------------------------------------------------- C19
\* the request the claim describes for each auth kind
IsIntrospection(req) ==
    /\ req.method = "POST"
    /\ Len(req.url) >= 1
    /\ req.url[Len(req.url)] = "/protocol/openid-connect/token/introspect"
    /\ req.data # << >>
IsUserinfo(req, token) ==
    /\ req.method = "GET"
    /\ req.url[Len(req.url)] = "/protocol/openid-connect/userinfo"
    /\ req.authorization = <<"Bearer ">> \o token

\* C19: once the request to the second source of roles is out, exactly one
\* was made; for a client-credentials identity it is the POST to the
\* introspection endpoint with token, client_id and client_secret, and for a
\* password identity it is the GET to the userinfo endpoint with the bearer
\* token.
C19_SecondarySourceByAuthKind ==
    roles.at \in {"secondary", "returned"} =>
        /\ Len(roles.requests) = 1
        /\ IF call.auth_type = "client_credentials"
           THEN IsIntrospection(roles.requests[1])
           ELSE IsUserinfo(roles.requests[1], roles.token)

\* the part of C19 that holds: exactly one request, and it is the userinfo
\* GET with the bearer token, whatever the auth kind
C19_AlwaysOneUserinfoRequest ==
    roles.at \in {"secondary", "returned"} =>
        /\ Len(roles.requests) = 1
        /\ IsUserinfo(roles.requests[1], roles.token)

\* ------------------------------------------- config.py: the configuration file
\* In this part `saved` is the file system (what is at each path), `config`
\* the dictionary the wizard holds, rq the value of SSO_CONFIG_PATH ("" when
\* it is unset or empty) and rout what the last operation loaded and wrote.

\* a path SSO_CONFIG_PATH is set to, and the two default locations of
\* lines 38-39
EnvPath == <<"/etc/sso/", "sso_config.yaml">>
PackagePath == <<"<package dir>/", "sso_config.yaml">>
HomePath == <<"~/", "sso_config.yaml">>
ConfigPaths == {EnvPath, PackagePath, HomePath}

\* a path without a file, and a file holding the environments envs
NoFile == [exists |-> FALSE, environments |-> {}]
File(envs) == [exists |-> TRUE, environments |-> envs]

\* lines 41-43 from candidate i on: the first candidate that is non-empty and
\* exists
RECURSIVE FirstExisting(_, _, _)
FirstExisting(candidates, i, files) ==
    IF i > Len(candidates) THEN NoStr
    ELSE IF candidates[i] # NoStr /\ files[candidates[i]].exists THEN candidates[i]
    ELSE FirstExisting(candidates, i + 1, files)

\* find_config_path; sso_config_path is os.environ.get("SSO_CONFIG_PATH", "")
find_config_path(sso_config_path, files) ==
    LET candidates == <<sso_config_path, PackagePath, HomePath>>
        found == FirstExisting(candidates, 1, files)
    IN  IF found # NoStr THEN found ELSE HomePath

\* load_config for a well-formed file: the path read and the environments,
\* or FileNotFoundError
load_config(sso_config_path, files) ==
    LET config_path == find_config_path(sso_config_path, files)
    IN  IF ~files[config_path].exists
        THEN [err |-> "FileNotFoundError", path |-> config_path, environments |-> {}]
        ELSE [err |-> "", path |-> config_path,
              environments |-> files[config_path].environments]

\* config.save_config(config, path): the file at path is written
save_config_to_path(files, cfg, path) == [files EXCEPT ![path] = File(cfg)]

\* run_setup_wizard(append), in which the environments `added` are entered:
\* the dictionary it saves, where it read it from and where it writes it
run_setup_wizard(sso_config_path, files, append, added) ==
    LET loaded == load_config(sso_config_path, files)
        start == IF append /\ loaded.err = "" THEN loaded.environments ELSE {}
        out_path == find_config_path(sso_config_path, files)
    IN  [config |-> start \cup added,
         loaded_from |-> IF append /\ loaded.err = "" THEN loaded.path ELSE NoStr,
         out_path |-> out_path,
         files |-> save_config_to_path(files, start \cup added, out_path)]

\* what the last operation did: the path it loaded from, the path it wrote
Done(op, loaded_from, out_path) == [op |-> op, loaded_from |-> loaded_from, out_path |-> out_path]

WizardEnvironments == {<<"d">>, <<"p">>}

InitFiles ==
    /\ pc = "files"
    /\ rq \in {NoStr, EnvPath}
    /\ saved \in [ConfigPaths -> {NoFile, File({<<"d">>})}]
    /\ config = {}
    /\ rout = Done("", NoStr, NoStr)
    /\ keyring = << >>
    /\ call = NoCall
    /\ log = << >>
    /\ result = ""
    /\ ncalls = 0
    /\ proc = NoProc
    /\ roles = NoRoles

\* load_config() is called
LoadConfig ==
    /\ pc = "files"
    /\ \E l \in {load_config(rq, saved)} :
         /\ rout' = Done("load", l.path, NoStr)
         /\ result' = l.err
         /\ config' = l.environments
    /\ UNCHANGED <<saved, keyring, pc, call, log, ncalls, rq, proc, roles>>

\* run_setup_wizard(append) is run and left with "Save & quit"
RunSetupWizard(append, added) ==
    /\ pc = "files"
    /\ ncalls < MaxWizardRuns
    /\ \E w \in {run_setup_wizard(rq, saved, append, added)} :
         /\ config' = w.config
         /\ saved' = w.files
         /\ rout' = Done("wizard", w.loaded_from, w.out_path)
    /\ result' = ""
    /\ ncalls' = ncalls + 1
    /\ UNCHANGED <<keyring, pc, call, log, rq, proc, roles>>

NextFiles ==
    \/ LoadConfig
    \/ \E append \in BOOLEAN, added \in (SUBSET WizardEnvironments) \ {{}} :
          RunSetupWizard(append, added)

SpecFiles == InitFiles /\ [][NextFiles]_vars

\* ------------------------------------------------------------------- C20
\* C20: whenever SSO_CONFIG_PATH is set to a non-empty path, that path is the
\* one a load reads and the one the wizard writes, whether or not a file
\* exists there or at a default location.
C20_EnvPathOverrides ==
    (pc = "files" /\ rq # NoStr) =>
        /\ rout.op = "load" => rout.loaded_from = rq
        /\ rout.op = "wizard" => rout.out_path = rq
        /\ (rout.op = "wizard" /\ rout.loaded_from # NoStr) => rout.loaded_from = rq

\* the part of C20 that holds: the path of SSO_CONFIG_PATH is used whenever a
\* file exists there
C20_EnvPathUsedIfItExists ==
    (pc = "files" /\ rq # NoStr /\ saved[rq].exists) =>
        /\ rout.op = "load" => rout.loaded_from = rq
        /\ rout.op = "wizard" => rout.out_path = rq

\* ------------------------------------------------ wizard.py: provisioning
\* In a wizard session `config` is the dictionary the wizard edits
\* (environment key -> name, sso_url, users) and `saved` what save_config
\* wrote; the users of an environment are kept in insertion order.

\* secrets.store_secret(env_key, user_key, secret): the secret is put into the
\* keyring under a name made of the environment and the user key
store_secret(ring, env_key, user_key, secret) ==
    LET key == env_key \o <<":">> \o user_key
    IN  [k \in (DOMAIN ring) \cup {key} |-> IF k = key THEN secret ELSE ring[k]]

\* lines 69 / 74: the entry _prompt_user writes for an auth type
WizardUserEntry(auth, ident) ==
    IF auth = "user"
    THEN [key |-> ident, auth_type |-> "user", email |-> ident, client_id |-> Absent]
    ELSE [key |-> ident, auth_type |-> "client", email |-> Absent, client_id |-> ident]

\* users[user_key] = entry on the dict of an environment's users
PutUser(users, entry) ==
    IF entry.key \in UserKeys(users)
    THEN [i \in 1..Len(users) |-> IF users[i].key = entry.key THEN entry ELSE users[i]]
    ELSE Append(users, entry)

\* lines 52-56: the sso_url made of the base URL and the realm typed
WizardSsoUrl(base, realm) ==
    LET raw == RStripSlash(Strip(base))
        url == IF raw # << >> /\ Head(raw) \in {"https://", "http://"} THEN raw
               ELSE <<"https://">> \o raw
    IN  url \o <<"/realms/">> \o Strip(realm)

\* _prompt_user (lines 62-76) on the threaded state
prompt_user(st, env_key, auth, ident, secret) ==
    [StGetpass(st, "wizard_secret", secret)
        EXCEPT !.config[env_key].users = PutUser(@, WizardUserEntry(auth, Strip(ident))),
               !.keyring = store_secret(@, env_key, Strip(ident), secret)]

\* _prompt_env (lines 47-59) for a non-empty key
prompt_env(st, env_key, base, realm, auth, ident, secret) ==
    prompt_user([st EXCEPT !.config =
                     DictPut(@, Strip(env_key),
                             [name |-> Strip(env_key), sso_url |-> WizardSsoUrl(base, realm),
                              users |-> << >>])],
                Strip(env_key), auth, ident, secret)

WizardEnvKeys == {<<"d">>, <<"p">>}
WizardAuthTypes == {"user", "client"}
WizardIdents == {<<"a", "@", "x">>, <<"k">>}

\* run_setup_wizard(append=False) has started: nothing configured yet
InitWizard ==
    /\ pc = "wizard"
    /\ config = << >>
    /\ saved = << >>
    /\ keyring = << >>
    /\ call = NoCall
    /\ log = << >>
    /\ result = ""
    /\ ncalls = 0
    /\ rq = NoStr
    /\ rout = Resolved("", NoStr, {})
    /\ proc = NoProc
    /\ roles = NoRoles

\* "[+] Add environment" (and the first environment of an empty config)
WizardPromptEnv(env_key, auth, ident, secret) ==
    /\ pc = "wizard"
    /\ ncalls < MaxWizardSteps
    /\ \E w \in {prompt_env(St(config, saved, keyring, log), env_key, <<"h", "/">>, <<"m">>,
                              auth, ident, secret)} :
         /\ config' = w.config
         /\ keyring' = w.keyring
         /\ log' = w.log
    /\ ncalls' = ncalls + 1
    /\ UNCHANGED <<saved, pc, call, result, rq, rout, proc, roles>>

\* "[+] Add user" in the menu of an environment (line 104)
WizardPromptUser(env_key, auth, ident, secret) ==
    /\ pc = "wizard"
    /\ ncalls < MaxWizardSteps
    /\ env_key \in DOMAIN config
    /\ \E w \in {prompt_user(St(config, saved, keyring, log), env_key, auth, ident, secret)} :
         /\ config' = w.config
         /\ keyring' = w.keyring
         /\ log' = w.log
    /\ ncalls' = ncalls + 1
    /\ UNCHANGED <<saved, pc, call, result, rq, rout, proc, roles>>

\* "[e] Edit secret" in the menu of a user (lines 82-85)
WizardEditSecret(env_key, user_key, secret) ==
    /\ pc = "wizard"
    /\ ncalls < MaxWizardSteps
    /\ env_key \in DOMAIN config
    /\ user_key \in UserKeys(config[env_key].users)
    /\ keyring' = store_secret(keyring, env_key, user_key, secret)
    /\ log' = Append(log, EvGetpass("wizard_new_secret", secret))
    /\ ncalls' = ncalls + 1
    /\ UNCHANGED <<config, saved, pc, call, result, rq, rout, proc, roles>>

\* "[q] Save & quit" (lines 152-160): save_config(config, out_path)
WizardSaveQuit ==
    /\ pc = "wizard"
    /\ config # << >>
    /\ saved' = config
    /\ pc' = "wizard_saved"
    /\ UNCHANGED <<config, keyring, call, log, result, ncalls, rq, rout, proc, roles>>

\* either token acquisitions with their creations and recoveries, or a
\* wizard session
InitDocument == Init \/ InitWizard

InWizard == pc \in {"wizard", "wizard_saved"}

NextDocument ==
    \/ ~InWizard /\ Next
    \/ \E e \in WizardEnvKeys, a \in WizardAuthTypes, i \in WizardIdents, x \in SecretInputs :
          WizardPromptEnv(e, a, i, x)
    \/ \E e \in WizardEnvKeys, a \in WizardAuthTypes, i \in WizardIdents, x \in SecretInputs :
          WizardPromptUser(e, a, i, x)
    \/ \E e \in WizardEnvKeys, u \in WizardIdents, x \in SecretInputs :
          WizardEditSecret(e, u, x)
    \/ WizardSaveQuit

SpecDocument == InitDocument /\ [][NextDocument]_vars

\* ------------------------------------------------------------------- C21
\* the secrets that are stored at the start or typed at a masked prompt
SecretValues == {"s0", "s1"}
\* the user entries of a configuration document, of either layout
DocumentUsers(doc) ==
    IF InWizard
    THEN UNION {{doc[e].users[i] : i \in 1..Len(doc[e].users)} : e \in DOMAIN doc}
    ELSE UNION {{doc.users[e][i] : i \in 1..Len(doc.users[e])} : e \in DOMAIN doc.users}
\* the string values of a configuration document outside its user entries
DocumentValues(doc) ==
    IF InWizard
    THEN UNION {{e, doc[e].name, doc[e].sso_url} : e \in DOMAIN doc}
    ELSE UNION {{e, doc.environments[e].sso_url, doc.environments[e].realm,
                 doc.environments[e].client_id} : e \in DOMAIN doc.environments}
\* a string value is, or is made with, a secret
HoldsSecret(v) == \E i \in 1..Len(v) : v[i] \in SecretValues
SecretFree(doc) ==
    /\ \A u \in DocumentUsers(doc) :
          /\ DOMAIN u = {"key", "auth_type", "email", "client_id"}
          /\ u.auth_type \notin SecretValues
          /\ ~HoldsSecret(u.key) /\ ~HoldsSecret(u.email) /\ ~HoldsSecret(u.client_id)
    /\ \A v \in DocumentValues(doc) : ~HoldsSecret(v)

\* C21: in every reachable state, after user creations, wizard entries,
\* secret edits and 401 recoveries, every user entry of the configuration in
\* memory and of the saved configuration has only its key, auth_type, email
\* and client_id, and no secret stored or typed at a password or client-secret
\* prompt is a value of either document.
C21_NoSecretInConfiguration == SecretFree(config) /\ SecretFree(saved)

\* a secret was typed for a user that get_token created and another at the
\* recovery, and both are in the keyring
C21_Witness ==
    /\ pc = "retry"
    /\ \E i \in 1..Len(log) : log[i].key = <<"new_user_secret">> /\ log[i].secret = "s1"
    /\ \E i \in 1..Len(log) : log[i].key = <<"replacement_secret">> /\ log[i].secret = "s1"
    /\ \E k \in DOMAIN keyring : keyring[k] = "s1"
    /\ config # call.config0

\* a wizard session in which a password was typed was saved
C21_WitnessWizard ==
    /\ pc = "wizard_saved"
    /\ \E k \in DOMAIN keyring : keyring[k] = "s1"
    /\ \E e \in DOMAIN saved : Len(saved[e].users) = 2

\* --------------------------------------------- malformed configurations
\* get_token on a configuration whose entries lack fields: the environment q
\* lacks sso_url, r lacks realm, e is an entry with no field at all; of the
\* users of d, n lacks its email, m its client_id and t its auth_type
UserNoEmail == [key |-> <<"n">>, auth_type |-> "password",
                email |-> Absent, client_id |-> Absent]
UserNoClientId == [key |-> <<"m">>, auth_type |-> "client_credentials",
                   email |-> Absent, client_id |-> Absent]
UserNoAuthType == [key |-> <<"t">>, auth_type |-> "<absent>",
                   email |-> Absent, client_id |-> <<"t">>]

MalformedEnvironments ==
    [k \in {<<"d">>, <<"q">>, <<"r">>, <<"e">>} |->
        CASE k = <<"d">> -> [sso_url |-> <<"https://", "h">>, realm |-> <<"m">>,
                             client_id |-> Absent]
          [] k = <<"q">> -> [sso_url |-> Absent, realm |-> <<"m">>, client_id |-> Absent]
          [] k = <<"r">> -> [sso_url |-> <<"https://", "h">>, realm |-> Absent,
                             client_id |-> Absent]
          [] OTHER -> NoEnv]

MalformedUsers ==
    [k \in {<<"d">>, <<"e">>} |->
        IF k = <<"d">> THEN <<UserA, UserNoEmail, UserNoClientId, UserNoAuthType>>
        ELSE <<UserA>>]

MalformedEnvArgs == {<<"d">>, <<"q">>, <<"r">>, <<"e">>}
MalformedUserArgs == {<<"a", "@", "x">>, <<"n">>, <<"m">>, <<"t">>, <<"z">>}

MalformedSecretKeys ==
    UNION {{get_secret_key(e, MalformedUsers[e][i].key,
                           SecretTypeOf(AuthTypeOf(MalformedUsers[e][i])))
               : i \in 1..Len(MalformedUsers[e])} : e \in DOMAIN MalformedUsers}

\* every configured user has its secret stored
InitMalformed ==
    /\ config = [environments |-> MalformedEnvironments, users |-> MalformedUsers]
    /\ saved = config
    /\ keyring = [k \in MalformedSecretKeys |-> "s0"]
    /\ pc = "idle"
    /\ call = NoCall
    /\ log = << >>
    /\ result = ""
    /\ ncalls = 0
    /\ rq = NoStr
    /\ rout = Resolved("", NoStr, {})
    /\ proc = NoProc
    /\ roles = NoRoles

NextMalformed ==
    \/ \E e \in MalformedEnvArgs, u \in MalformedUserArgs :
          \E d \in Answers(AsksEnvironment(e), DomainInputs, NoStr),
             r \in Answers(AsksEnvironment(e), RealmInputs, NoStr),
             ec \in Answers(AsksEnvironment(e), ClientIdInputs, NoStr),
             p1 \in Answers(AsksNewSecret(e, u), SecretInputs, "") :
               \E p2 \in Answers(AsksMissingSecret(e, u, p1), SecretInputs, "") :
                   GetTokenStart(e, u, d, r, ec, p1, p2)
    \/ \E s \in Statuses :
          \E cid \in Answers(IsUnauthorized(s) /\ AsksClientId, ClientIdInputs, NoStr),
             n \in Answers(IsUnauthorized(s), SecretInputs, "") :
               FirstResponse(s, cid, n)
    \/ \E s \in Statuses : RetryResponse(s)
    \/ Return

SpecMalformed == InitMalformed /\ [][NextMalformed]_vars

\* ------------------------------------------------------------------- C22
\* the environment of the call had an entry without sso_url when the call
\* started
EnvironmentLacksUrl ==
    /\ call.environment \in DOMAIN call.config0.environments
    /\ call.config0.environments[call.environment].sso_url = Absent
\* that entry had some other field
EnvironmentEntryNotEmpty == call.config0.environments[call.environment] # NoEnv
\* the identifier of the call resolved to an entry that lacks the
\* identifying attribute of its auth type
UserLacksIdentity ==
    /\ call.environment \in DOMAIN call.config0.users
    /\ LET users == call.config0.users[call.environment]
           key == ActualKey(call.config0, call.environment, call.user_key)
       IN  /\ key \in UserKeys(users)
           /\ LET u == users[CHOOSE i \in UserIndex(users, key) : TRUE]
              IN  IF AuthTypeOf(u) = "client_credentials" THEN u.client_id = Absent
                  ELSE u.email = Absent
\* the call has ended with an error and has sent no request
AbortedBeforeNetwork ==
    /\ pc = "done"
    /\ result \in {"KeyError", "ValueError"}
    /\ Len(Posts) = 0

\* C22: a call of get_token whose environment entry lacks the issuer URL
\* field, or whose user entry lacks its identifying attribute (email for a
\* password user, client_id for a client-credentials user), ends with an
\* error and has sent no HTTP request.
C22_MalformedAbortsBeforeNetwork ==
    (pc # "idle" /\ (EnvironmentLacksUrl \/ UserLacksIdentity)) => AbortedBeforeNetwork

\* the same for an environment entry that has some field but not sso_url
C22_NonEmptyEntryAborts ==
    (pc # "idle" /\ ((EnvironmentLacksUrl /\ EnvironmentEntryNotEmpty) \/
                     (~EnvironmentLacksUrl /\ UserLacksIdentity)))
        => AbortedBeforeNetwork

\* both cases of the abort are reached
C22_WitnessEnvironment == pc = "done" /\ EnvironmentLacksUrl /\ result = "KeyError"
C22_WitnessUser == pc = "done" /\ UserLacksIdentity /\ result = "ValueError"

\* ------------------------------------------------------------------- C23
\* the configured users whose email local-part equals the query
LocalPartMatches(q) == {u \in ResolveUsers : HasEmail(u) /\ BeforeAt(u.email) = q}

\* C23: when no user key equals the query and two or more configured users
\* have an email local-part equal to it, user resolution returns none of
\* them (so that its result does not depend on the order in which the users
\* are stored).
C23_NoArbitraryPickAmongLocalParts ==
    (/\ pc = "resolved_user"
     /\ \A u \in ResolveUsers : u.key # rq
     /\ Cardinality(LocalPartMatches(rq)) >= 2)
        => ~(rout.kind = "found" /\ \E u \in LocalPartMatches(rq) : rout.key = u.key)

\* with a single user of that local-part the result is that user, whatever
\* the order of the entries
C23_SingleLocalPartMatch ==
    (/\ pc = "resolved_user"
     /\ \A u \in ResolveUsers : u.key # rq
     /\ Cardinality(LocalPartMatches(rq)) = 1)
        => (rout.kind = "found" /\ \E u \in LocalPartMatches(rq) : rout.key = u.key)

\* ------------------------------------------- secrets.py: two identities
\* Two distinct identities (environment key, user key, secret kind) store and
\* delete their secrets in one keyring.  rq holds the two identities and rout
\* what each of them stored last (NoSecret: nothing, or deleted).
StoreEnvKeys == {<<"a">>, <<"a", ":", "b">>}
StoreUserKeys == {<<"c">>, <<"b", ":", "c">>, <<"b", "@", "c">>}
StoreKinds == {"password", "client_secret"}
Identities == StoreEnvKeys \X StoreUserKeys \X StoreKinds

InitStore ==
    /\ pc = "store"
    /\ rq \in {p \in Identities \X Identities : p[1] # p[2]}
    /\ rout = <<NoSecret, NoSecret>>
    /\ keyring = << >>
    /\ config = InitConfig(Absent)
    /\ saved = config
    /\ call = NoCall
    /\ log = << >>
    /\ result = ""
    /\ ncalls = 0
    /\ proc = NoProc
    /\ roles = NoRoles

\* SecretManager.set_secret for identity i
SetSecret(i, secret) ==
    /\ pc = "store"
    /\ ncalls < MaxStoreOps
    /\ keyring' = set_secret(keyring, rq[i][1], rq[i][2], rq[i][3], secret)
    /\ rout' = [rout EXCEPT ![i] = secret]
    /\ ncalls' = ncalls + 1
    /\ UNCHANGED <<config, saved, pc, call, log, result, rq, proc, roles>>

\* SecretManager.delete_secret for identity i
DeleteSecret(i) ==
    /\ pc = "store"
    /\ ncalls < MaxStoreOps
    /\ keyring' = delete_secret(keyring, rq[i][1], rq[i][2], rq[i][3])
    /\ rout' = [rout EXCEPT ![i] = NoSecret]
    /\ ncalls' = ncalls + 1
    /\ UNCHANGED <<config, saved, pc, call, log, result, rq, proc, roles>>

NextStore ==
    \/ \E i \in 1..2, x \in {"s0", "s1"} : SetSecret(i, x)
    \/ \E i \in 1..2 : DeleteSecret(i)

SpecStore == InitStore /\ [][NextStore]_vars

\* ------------------------------------------------------------------- C24
EntryName(t) == get_secret_key(t[1], t[2], t[3])
\* the secret the keyring holds for an identity is what it stored last
ReadsBackOwn(i) == get_secret(keyring, rq[i][1], rq[i][2], rq[i][3]) = rout[i]
HasColon(k) == \E j \in 1..Len(k) : k[j] = ":"

\* C24: two distinct identities (environment key, user key, secret kind) have
\* distinct keyring entry names, and storing or deleting the secret of one
\* never overwrites or removes the secret of the other: after any operations
\* on the two, each reads back what it stored last.
C24_AddressingInjective ==
    ncalls > 0 =>
        /\ EntryName(rq[1]) # EntryName(rq[2])
        /\ ReadsBackOwn(1) /\ ReadsBackOwn(2)

\* the same for identities whose environment and user keys have no ":"
C24_InjectiveWithoutColon ==
    (\A i \in 1..2 : ~HasColon(rq[i][1]) /\ ~HasColon(rq[i][2])) =>
        C24_AddressingInjective

\* ------------------------------------------------------------------- C25
\* when the call started its environment had an entry, its identifier
\* resolved to a configured user of it, and that user's secret was stored
ConfiguredAndStored ==
    /\ call.environment \in EnvKeysOf(call.config0)
    /\ call.config0.environments[call.environment] # NoEnv
    /\ LET users == get_available_users_for_environment(call.config0, call.environment)
           key == ActualKey(call.config0, call.environment, call.user_key)
       IN  /\ key \in UserKeys(users)
           /\ LET u == users[CHOOSE i \in UserIndex(users, key) : TRUE]
              IN  SecretTruthy(get_secret(call.keyring0, call.environment, key,
                                          SecretTypeOf(AuthTypeOf(u))))
\* no response yet, or a first response that is not a 401
FirstNotUnauthorized == Len(Resps) >= 1 => RespStatus(1) # "401"
\* the call has written nothing
NothingWritten ==
    /\ \A i \in 1..Len(log) : log[i].ev \notin {"set", "save", "delete"}
    /\ keyring = call.keyring0
    /\ config = call.config0

\* C25: a call of get_token for a configured environment and a configured
\* user whose secret is stored, and whose first token response is not a 401,
\* sets and deletes nothing in the keyring and saves no configuration:
\* keyring and configuration are after the call what they were before it,
\* whether it returns a token or fails.
C25_NoWriteWithoutRecovery ==
    (pc \in {"first", "retry", "done"} /\ ConfiguredAndStored /\ FirstNotUnauthorized)
        => NothingWritten

\* such a call has returned a token
C25_Witness ==
    /\ pc = "done" /\ ConfiguredAndStored /\ Len(Resps) = 1 /\ result = "token"
    /\ call.user_key # call.actual_key
\* such a call has failed after its request
C25_WitnessFailed ==
    pc = "done" /\ ConfiguredAndStored /\ Len(Resps) = 1 /\ result # "token"

====
